---------------------------- MODULE Spec2Model ----------------------------
(***************************************************************************)
(* A model of snappy (src/src/snapp.py, with src/src/snap.py as the older  *)
(* variant): the pagination controller iter_scholar_pages_requests and its *)
(* consumer fetch_and_cache_profile, the page aggregator                   *)
(* scrape_profile_all_publications / scrape_it, the venue text functions   *)
(* normalise_journal_name and extract_journal_name, the author classifier  *)
(* compare_initialled_name_with_full_name, and a run of main over the      *)
(* candidates (mode selection, fetch loop, scraping loop, reports).        *)
(*                                                                         *)
(* A Python str is modelled as a sequence of one-character strings, so the *)
(* text functions are computed character by character as the code does.   *)
(***************************************************************************)
EXTENDS Integers, Sequences, FiniteSets, TLC

(***************************************************************************)
(* Bounds of the model.                                                    *)
(***************************************************************************)
\* longest venue string fed to the text functions
MaxLen == 4
\* largest pagesize, max_pages and max_block_retries a run is given
MaxPageSize == 3
MaxPagesBound == 3
MaxRetries == 2
\* most publication rows a profile holds on the server
MaxRows == 10
\* most cached page files a profile has in html_dir
MaxCachedPages == 2
\* longest venue text of the single publication row scraped against the allow-list
MaxVenueLen == 4
\* longest author token compared with a 'First Last' name
MaxInitialledLen == 4
\* most candidates of the HR sheet in one run
MaxCandidates == 2
\* most rows of the HR sheet at the candidate range prompts
MaxSheetLen == 7

VARIABLES
    \* ---- venue text functions (normalise_journal_name, extract_journal_name)
    tpc,            \* position: "idle", "input", "normalised", "renormalised", "extracted"
    raw_info,       \* the input string
    name_norm,      \* normalise_journal_name(raw_info)
    name_norm2,     \* normalise_journal_name(name_norm)
    journal_title,  \* extract_journal_name(raw_info)
    \* ---- author classifier (compare_initialled_name_with_full_name)
    npc,            \* position: "idle", "call", "returned", "exited"
    initialled_name,\* argument: the author token
    full_name,      \* argument: the candidate's name
    cmp_result,     \* "pending", "True", "False", or "exit" for exit(1)
    \* ---- pagination controller (iter_scholar_pages_requests) and its
    \*      consumer (fetch_and_cache_profile)
    cpc,            \* "idle", "request", "yielded", "done", "returned", "raised"
    source_file,    \* the file whose controller runs: "snapp.py" or "snap.py"
    pagesize,       \* parameter
    max_pages,      \* parameter
    max_block_retries, \* parameter
    total_rows,     \* rows of the profile on the server
    cstart,
    page_index,
    block_attempts,
    pages_yielded,  \* the page bodies yielded so far, in order
    nreq,           \* number of session.get calls issued
    page_requests,  \* number of session.get calls issued for the current page
    all_clean,      \* every response so far was a clean page of the profile
    stop_reason,    \* why the generator returned, "" while it runs
    any_page,       \* fetch_and_cache_profile.any_page
    cache,          \* html_dir: page_num -> body of <user_id>_p<page_num>.htm
    last_sleep,     \* the last random_sleep of the controller: why, typical, slept
    slept_after,    \* the pages whose yield was followed by random_sleep(delay)
    \* ---- page aggregator (scrape_profile_all_publications, scrape_it)
    apc,            \* "idle", "loop", "returned", "exited", "raised"
    journal_list,   \* the allow-list, sorted and without duplicates
    html_files,     \* the cached pages <user_id>_p1.htm, _p2.htm, ... as parsed
    page_idx,
    front_matter,   \* name, institution, research_areas, h_all, h_5y, cit_all, cit_5y
    totals,         \* total_journal_counts, _fa, _sa, _la, _num_authors, _details,
                    \* total_article_count
    info_found,     \* scrape_profile_all_publications.any_page
    \* ---- a run of main over the candidates of the HR sheet
    mpc,            \* "idle", "modes", "fetch", "prompt", "scrape", "done", "exited",
                    \* "crashed" (an uncaught exception ends main)
    OFFLINE_MODE,
    FETCH_ONLY_MODE,
    ACCEPT_DEFAULTS,
    journal_file,   \* "found" or "missing": os.path.exists(journal_list_file)
    df_hr,          \* the candidates, in sheet order
    id_base,        \* candidate_id of row k is id_base + k
    html_dir,       \* row -> the cached pages of that candidate's profile
    fetch_i,        \* row the fetch loop is at
    scrape_i,       \* row the scraping loop is at
    records,
    trace,          \* what the run did and printed, in order
    \* ---- the candidate range prompts of main
    rpc,            \* "idle", "start", "end", "selected"
    sheet_len,      \* len(df_hr) as read from the HR sheet
    start_entry,    \* what the operator typed at the start prompt
    end_entry,      \* what the operator typed at the end prompt
    start_candidate_num,
    end_candidate_num,
    df_rows         \* df_hr as the 1-based sheet numbers of its rows

textVars == <<tpc, raw_info, name_norm, name_norm2, journal_title>>
nameVars == <<npc, initialled_name, full_name, cmp_result>>
ctlParams == <<source_file, pagesize, max_pages, max_block_retries, total_rows>>
sleepVars == <<last_sleep, slept_after>>
ctlVars == <<cpc, ctlParams, cstart, page_index, block_attempts, pages_yielded,
             nreq, page_requests, all_clean, stop_reason, any_page, cache,
             sleepVars>>

aggVars == <<apc, journal_list, html_files, page_idx, front_matter, totals, info_found>>

rangeVars == <<rpc, sheet_len, start_entry, end_entry, start_candidate_num,
               end_candidate_num, df_rows>>

mainVars == <<mpc, OFFLINE_MODE, FETCH_ONLY_MODE, ACCEPT_DEFAULTS, journal_file, df_hr,
              id_base, html_dir, fetch_i, scrape_i, records, trace, rangeVars>>

\* an entry not made yet
NoEntry == [kind |-> "none", n |-> 0]

\* no random_sleep yet
NoSleep == [kind |-> "none", k |-> 0, typical |-> 0, slept |-> 0]

vars == <<textVars, nameVars, ctlVars, aggVars, mainVars>>

(***************************************************************************)
(* A component that a specification does not exercise stays idle.          *)
(***************************************************************************)
TextIdle ==
    /\ tpc = "idle"
    /\ raw_info = <<>>
    /\ name_norm = <<>>
    /\ name_norm2 = <<>>
    /\ journal_title = <<>>

NameIdle ==
    /\ npc = "idle"
    /\ initialled_name = <<>>
    /\ full_name = <<>>
    /\ cmp_result = "pending"

CtlIdle ==
    /\ cpc = "idle"
    /\ source_file = "snapp.py"
    /\ pagesize = 1
    /\ max_pages = 1
    /\ max_block_retries = 0
    /\ total_rows = 0
    /\ cstart = 0
    /\ page_index = 0
    /\ block_attempts = 0
    /\ pages_yielded = <<>>
    /\ nreq = 0
    /\ page_requests = 0
    /\ all_clean = TRUE
    /\ stop_reason = ""
    /\ any_page = FALSE
    /\ cache = <<>>
    /\ last_sleep = NoSleep
    /\ slept_after = {}

AggIdle ==
    /\ apc = "idle"
    /\ journal_list = <<>>
    /\ html_files = <<>>
    /\ page_idx = 0
    /\ front_matter = <<>>
    /\ totals = <<>>
    /\ info_found = FALSE

RangeIdle ==
    /\ rpc = "idle"
    /\ sheet_len = 0
    /\ start_entry = NoEntry
    /\ end_entry = NoEntry
    /\ start_candidate_num = 0
    /\ end_candidate_num = 0
    /\ df_rows = <<>>

RunIdle ==
    /\ mpc = "idle"
    /\ OFFLINE_MODE = FALSE
    /\ FETCH_ONLY_MODE = FALSE
    /\ ACCEPT_DEFAULTS = FALSE
    /\ journal_file = "found"
    /\ df_hr = <<>>
    /\ id_base = 0
    /\ html_dir = <<>>
    /\ fetch_i = 1
    /\ scrape_i = 1
    /\ records = <<>>
    /\ trace = <<>>

MainIdle == RunIdle /\ RangeIdle

(***************************************************************************)
(* Characters.  Python's str.strip() and the regex class \s take the same  *)
(* ASCII whitespace; string.punctuation is the ASCII punctuation; the      *)
(* regex "." takes every character but the line feed.                      *)
(***************************************************************************)
LowerSeq == <<"a", "b", "c", "d", "e", "f", "g", "h", "i", "j", "k", "l", "m",
             "n", "o", "p", "q", "r", "s", "t", "u", "v", "w", "x", "y", "z">>
UpperSeq == <<"A", "B", "C", "D", "E", "F", "G", "H", "I", "J", "K", "L", "M",
             "N", "O", "P", "Q", "R", "S", "T", "U", "V", "W", "X", "Y", "Z">>
LowerLetters == {LowerSeq[i] : i \in 1..26}
UpperLetters == {UpperSeq[i] : i \in 1..26}
Whitespace   == {" ", "\t", "\n"}
Digits       == {"1"}
Punctuation  == {".", ",", "(", "-"}

IsSpace(c) == c \in Whitespace
IsDigit(c) == c \in Digits
IsPunct(c) == c \in Punctuation

\* the characters the checked venue strings are drawn from
TextAlphabet == {"a", "A", " ", "\t", "\n", ".", ",", "(", "1"}

\* every string over alphabet A of length at most n
StringsUpTo(A, n) == UNION {[1..k -> A] : k \in 0..n}

\* str.lower() of one character
LowerChar(c) == IF c \in UpperLetters
                THEN LowerSeq[CHOOSE i \in 1..26 : UpperSeq[i] = c]
                ELSE c

\* str.upper() of one character
UpperChar(c) == IF c \in LowerLetters
                THEN UpperSeq[CHOOSE i \in 1..26 : LowerSeq[i] = c]
                ELSE c

\* str.lower()
Lower(s) == [i \in 1..Len(s) |-> LowerChar(s[i])]

RECURSIVE LStrip(_)
LStrip(s) == IF s = <<>> THEN s
             ELSE IF IsSpace(Head(s)) THEN LStrip(Tail(s)) ELSE s

RECURSIVE RStrip(_)
RStrip(s) == IF s = <<>> THEN s
             ELSE IF IsSpace(s[Len(s)]) THEN RStrip(SubSeq(s, 1, Len(s) - 1)) ELSE s

\* str.strip()
Strip(s) == RStrip(LStrip(s))

\* str.translate(PUNCT): every punctuation character deleted
RemovePunct(s) == SelectSeq(s, LAMBDA c : ~IsPunct(c))

\* re.sub(r"\s+", " ", s): every maximal run of whitespace becomes one space
RECURSIVE CollapseSpaces(_)
CollapseSpaces(s) ==
    IF s = <<>> THEN s
    ELSE IF IsSpace(Head(s)) THEN <<" ">> \o CollapseSpaces(LStrip(s))
    ELSE <<Head(s)>> \o CollapseSpaces(Tail(s))

\* normalise_journal_name: lower().strip(), then translate(PUNCT), then re.sub
normalise_journal_name(name) == CollapseSpaces(RemovePunct(Strip(Lower(name))))

(***************************************************************************)
(* extract_journal_name.  BoundaryAt(s, i) is the lookahead                *)
(* (?=\s\d|\s\(\d|,\s*\d{1,4}) tried at the 1-based index i.               *)
(***************************************************************************)
CharAt(s, i) == IF i \in 1..Len(s) THEN s[i] ELSE "EOS"

BoundaryAt(s, i) ==
    \/ IsSpace(CharAt(s, i)) /\ IsDigit(CharAt(s, i + 1))
    \/ IsSpace(CharAt(s, i)) /\ CharAt(s, i + 1) = "(" /\ IsDigit(CharAt(s, i + 2))
    \/ /\ CharAt(s, i) = ","
       /\ \E k \in (i + 1)..Len(s) :
             /\ IsDigit(s[k])
             /\ \A j \in (i + 1)..(k - 1) : IsSpace(s[j])

\* the prefix lengths p at which ^(.*?) followed by the lookahead can match:
\* "." takes no line feed, so the prefix holds none
MatchLengths(s) ==
    {p \in 0..Len(s) : /\ BoundaryAt(s, p + 1)
                       /\ \A j \in 1..p : s[j] # "\n"}

Least(S) == CHOOSE p \in S : \A q \in S : p <= q

extract_journal_name(raw) ==
    LET s == Strip(raw)
        M == MatchLengths(s)
    IN  IF M # {} THEN Strip(SubSeq(s, 1, Least(M))) ELSE s

(***************************************************************************)
(* compare_initialled_name_with_full_name.                                 *)
(***************************************************************************)
\* str.count("-")
HyphenCount(s) == Len(SelectSeq(s, LAMBDA c : c = "-"))

\* the string left as it is
KeepHyphens(s) == s

\* str.replace("-", " ")
ReplaceHyphens(s) == [i \in 1..Len(s) |-> IF s[i] = "-" THEN " " ELSE s[i]]

\* str.split(sep) for a one-character sep: cut at every sep, empty parts kept
RECURSIVE SplitOn(_, _)
SplitOn(s, sep) ==
    IF \A i \in 1..Len(s) : s[i] # sep THEN <<s>>
    ELSE LET k == Least({i \in 1..Len(s) : s[i] = sep})
         IN  <<SubSeq(s, 1, k - 1)>> \o SplitOn(SubSeq(s, k + 1, Len(s)), sep)

\* str.split(" ")
SplitOnSpace(s) == SplitOn(s, " ")

\* str.isalpha(): not empty and letters only
IsAlpha(part) ==
    /\ part # <<>>
    /\ \A i \in 1..Len(part) : part[i] \in LowerLetters \cup UpperLetters

\* the loop over reversed(full_name_parts[:-1]), from part k down to part 1;
\* acc is [initials, surname]
RECURSIVE WalkParts(_, _, _)
\* the walk with the lowercase test dropped: every alphabetic part is an initial
WalkPartsAllInitials(parts, k, acc) ==
    IF k = 0 THEN acc
    ELSE LET part == parts[k] IN
         IF ~IsAlpha(part) THEN WalkParts(parts, k - 1, acc)
         ELSE WalkParts(parts, k - 1,
                        [acc EXCEPT !.initials = <<part[1]>> \o acc.initials])

WalkParts(parts, k, acc) ==
    IF k = 0 THEN acc
    ELSE LET part == parts[k] IN
         IF ~IsAlpha(part) THEN WalkParts(parts, k - 1, acc)
         ELSE IF part[1] # UpperChar(part[1])
              THEN WalkParts(parts, k - 1,
                             [acc EXCEPT !.surname = part \o <<" ">> \o acc.surname])
              ELSE WalkParts(parts, k - 1,
                             [acc EXCEPT !.initials = <<part[1]>> \o acc.initials])

\* the full name compared as it stands, without reducing First to its initial
full_name_not_initialised(full) == full

\* the rebuilt name without the separating space when there are no initials
full_name_initialised_without_blank(full) ==
    LET parts == SplitOnSpace(Strip(full))
        n     == Len(parts)
        acc   == IF n >= 2
                 THEN WalkParts(parts, n - 1, [initials |-> <<>>, surname |-> parts[n]])
                 ELSE [initials |-> <<>>, surname |-> parts[1]]
    IN  IF acc.initials = <<>> THEN acc.surname
        ELSE acc.initials \o <<" ">> \o acc.surname

\* full_name_initialised: the full name rebuilt as initials + " " + surname
full_name_initialised(full) ==
    LET parts == SplitOnSpace(Strip(full))
        n     == Len(parts)
        acc   == IF n >= 2
                 THEN WalkParts(parts, n - 1, [initials |-> <<>>, surname |-> parts[n]])
                 ELSE [initials |-> <<>>, surname |-> parts[1]]
    IN  acc.initials \o <<" ">> \o acc.surname

\* the value returned, or "exit" when exit(1) is called
compare_initialled_name_with_full_name(initialled, full) ==
    IF HyphenCount(initialled) > 1 \/ HyphenCount(full) > 1 THEN "exit"
    ELSE LET hyphen == HyphenCount(initialled) > 0 \/ HyphenCount(full) > 0
             rebuilt == full_name_initialised(full)
             a == IF hyphen THEN ReplaceHyphens(initialled) ELSE initialled
             b == IF hyphen THEN ReplaceHyphens(rebuilt) ELSE rebuilt
         IN  IF Lower(a) # Lower(b) THEN "False" ELSE "True"

\* sep.join(tokens)
RECURSIVE Join(_, _)
Join(tokens, sep) ==
    IF tokens = <<>> THEN <<>>
    ELSE IF Len(tokens) = 1 THEN tokens[1]
    ELSE tokens[1] \o sep \o Join(Tail(tokens), sep)

\* " ".join(tokens)
JoinSpace(tokens) == Join(tokens, <<" ">>)

(***************************************************************************)
(* The names the classifier is checked on: full names 'First P1..Pk Last'  *)
(* built from the tokens below, and for each the initialled forms an      *)
(* author list can hold.                                                   *)
(***************************************************************************)
FirstTokens    == {<<"A", "n">>, <<"a", "n">>, <<"J", ".">>}
ParticleTokens == {<<"V", "a">>, <<"v", "a">>, <<"D", "e">>, <<"d", "e">>, <<"d", "'">>}
LastTokens     == {<<"B", "e">>, <<"B", "-", "e">>, <<"B", "-", "e", "-", "g">>, <<"O", "'", "b">>}

\* longest run of particles between the first name and the surname
MaxParticles == 2

FullNameTokens ==
    {<<f>> \o ps \o <<l>> :
        f \in FirstTokens, ps \in StringsUpTo(ParticleTokens, MaxParticles), l \in LastTokens}

\* '<initial of First> P1 ... Pk Last'
InitialAndParticles(tokens) ==
    JoinSpace(<<<<tokens[1][1]>>>> \o Tail(tokens))

\* '<first letters of First, P1..Pk> Last'
AllInitials(tokens) ==
    LET n == Len(tokens)
    IN  [i \in 1..(n - 1) |-> tokens[i][1]] \o <<" ">> \o tokens[n]

InitialledForms(tokens) ==
    LET forms == {InitialAndParticles(tokens), AllInitials(tokens),
                  full_name_initialised(JoinSpace(tokens))}
    IN  forms \cup {Lower(s) : s \in forms}
              \cup {ReplaceHyphens(s) : s \in forms}
              \cup {<<"J", " ">> \o tokens[Len(tokens)]}

AnnaVanDerBerg == <<"A","n","n","a"," ","V","a","n"," ","D","e","r"," ","B","e","r","g">>
A_VanDerBerg   == <<"A"," ","V","a","n"," ","D","e","r"," ","B","e","r","g">>
Anna_van_der_Berg == <<"A","n","n","a"," ","v","a","n"," ","d","e","r"," ","B","e","r","g">>
A_van_der_Berg == <<"A"," ","v","a","n"," ","d","e","r"," ","B","e","r","g">>
JohnSmith == <<"J","o","h","n"," ","S","m","i","t","h">>
JaneDoe   == <<"J","a","n","e"," ","D","o","e">>
J_Smith   == <<"J"," ","S","m","i","t","h">>
ABC_Smith == <<"A","-","B","-","C"," ","S","m","i","t","h">>

\* hyphen-free names 'First Last' and the characters of the author tokens
\* compared with them
PlainFullNames == {<<"A", "n", " ", "B", "e">>, <<"B", "a", " ", "A", "e">>}
InitialledAlphabet == {"A", "a", "B", "e", " ", "-"}

\* the pairs of the documented examples
ExamplePairs ==
    {<<A_VanDerBerg, AnnaVanDerBerg>>, <<A_van_der_Berg, Anna_van_der_Berg>>,
     <<A_VanDerBerg, Anna_van_der_Berg>>,
     <<J_Smith, JohnSmith>>, <<J_Smith, JaneDoe>>, <<ABC_Smith, JohnSmith>>}

\* 'First Sur1-Sur2' with author tokens written with the hyphen, with a space
\* in its place, in either letter case, and with the two halves run together
HyphenatedSurnamePairs ==
    { <<a, <<"A", "n", " ", "B", "-", "e">>>> :
        a \in {<<"A", " ", "B", "-", "e">>,
              <<"A", " ", "B", " ", "e">>,
              <<"a", " ", "b", "-", "e">>,
              <<"a", " ", "B", " ", "E">>,
              <<"A", " ", "B", "-", "E">>,
              <<"A", " ", "B", "e">>,
              <<"B", " ", "e">>} }

\* full names from which no initial can be taken: empty, a single word, a
\* first token that starts in lowercase or is not alphabetic
NoInitialsFullNames ==
    {<<>>, <<"B", "e">>, <<"B", "-", "e">>, <<"a", "n", " ", "B", "e">>, <<"J", ".", " ", "B", "e">>, <<"1", " ", "e">>}

InitName ==
    /\ npc = "call"
    /\ \/ \E tokens \in FullNameTokens :
             /\ full_name = JoinSpace(tokens)
             /\ initialled_name \in InitialledForms(tokens)
       \/ \E pair \in ExamplePairs :
             /\ initialled_name = pair[1]
             /\ full_name = pair[2]
       \/ /\ full_name \in PlainFullNames
          /\ initialled_name \in StringsUpTo(InitialledAlphabet, MaxInitialledLen)
       \/ \E pair \in HyphenatedSurnamePairs :
             /\ initialled_name = pair[1]
             /\ full_name = pair[2]
       \/ /\ full_name \in NoInitialsFullNames
          /\ initialled_name \in StringsUpTo(InitialledAlphabet, MaxInitialledLen)
    /\ cmp_result = "pending"
    /\ TextIdle
    /\ CtlIdle
    /\ AggIdle
    /\ MainIdle

\* the call returns a bool
CompareReturns ==
    /\ npc = "call"
    /\ compare_initialled_name_with_full_name(initialled_name, full_name) # "exit"
    /\ cmp_result' = compare_initialled_name_with_full_name(initialled_name, full_name)
    /\ npc' = "returned"
    /\ UNCHANGED <<initialled_name, full_name>>
    /\ UNCHANGED <<textVars, ctlVars, aggVars, mainVars>>

\* the call ends the process with exit(1)
CompareExits ==
    /\ npc = "call"
    /\ compare_initialled_name_with_full_name(initialled_name, full_name) = "exit"
    /\ cmp_result' = "exit"
    /\ npc' = "exited"
    /\ UNCHANGED <<initialled_name, full_name>>
    /\ UNCHANGED <<textVars, ctlVars, aggVars, mainVars>>

NextName == CompareReturns \/ CompareExits

SpecName == InitName /\ [][NextName]_vars

(***************************************************************************)
(* The pagination controller iter_scholar_pages_requests (snapp.py) run by *)
(* fetch_and_cache_profile.  The server is the environment: every          *)
(* session.get is answered by a transport error, a status, or a 200 body   *)
(* that may carry a block marker, may hold the results table, and holds    *)
(* some rows.                                                              *)
(***************************************************************************)
BlockStatuses == {429, 503}
OtherStatuses == {404, 500}

\* "sub in s"
Contains(s, sub) ==
    \E i \in 0..(Len(s) - Len(sub)) : SubSeq(s, i + 1, i + Len(sub)) = sub

\* looks_like_block_page.block_markers
block_markers ==
    { <<"u", "n", "u", "s", "u", "a", "l", " ", "t", "r", "a", "f", "f", "i", "c">>,
      <<"/", "s", "o", "r", "r", "y", "/">>,
      <<"n", "o", "t", " ", "a", " ", "r", "o", "b", "o", "t">>,
      <<"s", "o", "l", "v", "e", " ", "t", "h", "e", " ", "c", "a", "p", "t", "c", "h", "a">>,
      <<"s", "u", "b", "m", "i", "t", " ", "a", " ", "v", "e", "r", "i", "f", "i", "c", "a", "t", "i", "o", "n">>,
      <<"o", "u", "r", " ", "s", "y", "s", "t", "e", "m", "s", " ", "h", "a", "v", "e", " ", "d", "e", "t", "e", "c", "t", "e", "d">>,
      <<"s", "c", "h", "o", "l", "a", "r", " ", "h", "e", "l", "p">> }

\* the test of looks_like_block_page on the text as received
looks_like_block_page_as_received(html) ==
    \/ Contains(html, <<"c", "a", "p", "t", "c", "h", "a">>)
    \/ \E marker \in block_markers : Contains(html, marker)

\* looks_like_block_page: text = html.lower(); "captcha" in text, or any
\* marker in text
looks_like_block_page(html) ==
    LET text == Lower(html) IN
    \/ Contains(text, <<"c", "a", "p", "t", "c", "h", "a">>)
    \/ \E marker \in block_markers : Contains(text, marker)

\* the texts a 200 response carries
ResponseTexts ==
    { <<"R", "o", "b", "o", "t">>,
      <<"C", "A", "P", "T", "C", "H", "A">>,
      <<"C", "a", "p", "t", "c", "h", "a">>,
      <<"c", "a", "p", "t", "c", "h", "a">>,
      <<"/", "S", "o", "r", "r", "y", "/">>,
      <<"N", "o", "t", " ", "A", " ", "R", "o", "b", "o", "t">>,
      <<"s", "c", "h", "o", "l", "a", "r", " ", "h", "e", "l", "p">> }

\* rows the profile's page at offset c holds
ProfileRows(c) ==
    IF total_rows - c >= pagesize THEN pagesize
    ELSE IF total_rows - c > 0 THEN total_rows - c ELSE 0

\* a page body as the controller sees it
Body(c, text, table, rows) ==
    [cstart |-> c, status |-> 200, text |-> text, table |-> table, rows |-> rows]

\* "if len(rows) <= pagesize": a full page taken for the last one
IsLastPageFull(rows) == rows <= pagesize

\* "if len(rows) < pagesize": this is the last page
IsLastPage(rows) == rows < pagesize

\* an any_page test that never raises
NoPageRaisesNever(any) == FALSE

\* "if not any_page: raise GSBlockedError"
NoPageRaises(any) == ~any

\* the parameter defaults, in seconds
delay == 8
\* the delay default of snap.py
snap_delay == 1
block_backoff_base == 10

\* a sleep of twice the typical delay
random_sleep_doubled(typical_delay) == {2 * typical_delay}

\* random_sleep: random.uniform(typical_delay * 0.5, typical_delay * 1.5), as
\* the two ends of the interval and its middle
random_sleep(typical_delay) ==
    {typical_delay \div 2, typical_delay, (3 * typical_delay) \div 2}

\* the same backoff before every retry
BackoffConstant(attempts) == block_backoff_base

\* backoff = block_backoff_base * (2 ** (block_attempts - 1))
Backoff(attempts) == block_backoff_base * 2^(attempts - 1)

\* a budget of one retry more
BudgetExceededLate(attempts) == attempts > max_block_retries + 1

\* block_attempts > max_block_retries after the increment
BudgetExceeded(attempts) == attempts > max_block_retries

\* a call of iter_scholar_pages_requests of the given file
InitControllerOf(file) ==
    /\ cpc = "request"
    /\ source_file = file
    /\ pagesize \in 1..MaxPageSize
    /\ max_pages \in 1..MaxPagesBound
    /\ max_block_retries \in 0..MaxRetries
    /\ total_rows \in 0..MaxRows
    /\ cstart = 0
    /\ page_index = 0
    /\ block_attempts = 0
    /\ pages_yielded = <<>>
    /\ nreq = 0
    /\ page_requests = 0
    /\ all_clean = TRUE
    /\ stop_reason = ""
    /\ any_page = FALSE
    /\ cache = <<>>
    /\ last_sleep = NoSleep
    /\ slept_after = {}
    /\ TextIdle
    /\ NameIdle
    /\ AggIdle
    /\ MainIdle

InitController == InitControllerOf("snapp.py")

\* the generator returns: nothing more is yielded or requested
Stop(reason) ==
    /\ stop_reason' = reason
    /\ cpc' = "done"

\* snapp.py: session.get raises requests.RequestException
FetchTransportError ==
    /\ cpc = "request"
    /\ source_file = "snapp.py"
    /\ nreq' = nreq + 1
    /\ page_requests' = page_requests + 1
    /\ all_clean' = FALSE
    /\ block_attempts' = block_attempts + 1
    /\ IF BudgetExceeded(block_attempts + 1)
       THEN /\ Stop("transport")
            /\ UNCHANGED last_sleep
       ELSE \* random_sleep(backoff); continue
            /\ \E sleep_s \in random_sleep(Backoff(block_attempts + 1)) :
                  last_sleep' = [kind |-> "backoff", k |-> block_attempts + 1,
                                 typical |-> Backoff(block_attempts + 1),
                                 slept |-> sleep_s]
            /\ UNCHANGED <<cpc, stop_reason>>
    /\ UNCHANGED <<ctlParams, cstart, page_index, pages_yielded, any_page, cache,
                   slept_after>>
    /\ UNCHANGED <<textVars, nameVars, aggVars, mainVars>>

\* snapp.py: resp.status_code in (429, 503)
FetchHttpBlock ==
    /\ cpc = "request"
    /\ source_file = "snapp.py"
    /\ \E status \in BlockStatuses :
          /\ nreq' = nreq + 1
          /\ page_requests' = page_requests + 1
          /\ all_clean' = FALSE
          /\ Stop("http_block")
    /\ UNCHANGED <<ctlParams, cstart, page_index, block_attempts, pages_yielded,
                   any_page, cache>>
    /\ UNCHANGED sleepVars
    /\ UNCHANGED <<textVars, nameVars, aggVars, mainVars>>

\* resp.status_code != 200
FetchHttpOther ==
    /\ cpc = "request"
    /\ \E status \in OtherStatuses :
          /\ nreq' = nreq + 1
          /\ page_requests' = page_requests + 1
          /\ all_clean' = FALSE
          /\ Stop("http_error")
    /\ UNCHANGED <<ctlParams, cstart, page_index, block_attempts, pages_yielded,
                   any_page, cache>>
    /\ UNCHANGED sleepVars
    /\ UNCHANGED <<textVars, nameVars, aggVars, mainVars>>

\* snapp.py: status 200 and looks_like_block_page(html)
FetchBlockPage ==
    /\ cpc = "request"
    /\ source_file = "snapp.py"
    /\ \E html \in ResponseTexts : looks_like_block_page(html)
    /\ nreq' = nreq + 1
    /\ page_requests' = page_requests + 1
    /\ all_clean' = FALSE
    /\ Stop("block_page")
    /\ UNCHANGED <<ctlParams, cstart, page_index, block_attempts, pages_yielded,
                   any_page, cache>>
    /\ UNCHANGED sleepVars
    /\ UNCHANGED <<textVars, nameVars, aggVars, mainVars>>

\* snap.py: a transport error, a 429 or 503, or a 200 block page:
\* block_attempts += 1; return when block_attempts > max_block_retries, else
\* time.sleep(backoff); continue
SnapRetry(reason) ==
    /\ nreq' = nreq + 1
    /\ page_requests' = page_requests + 1
    /\ all_clean' = FALSE
    /\ block_attempts' = block_attempts + 1
    /\ IF BudgetExceeded(block_attempts + 1)
       THEN /\ Stop(reason)
            /\ UNCHANGED last_sleep
       ELSE /\ last_sleep' = [kind |-> "backoff", k |-> block_attempts + 1,
                              typical |-> Backoff(block_attempts + 1),
                              slept |-> Backoff(block_attempts + 1)]
            /\ UNCHANGED <<cpc, stop_reason>>
    /\ UNCHANGED <<ctlParams, cstart, page_index, pages_yielded, any_page, cache,
                   slept_after>>
    /\ UNCHANGED <<textVars, nameVars, aggVars, mainVars>>

\* snap.py: session.get raises requests.RequestException
SnapTransportError ==
    /\ cpc = "request"
    /\ source_file = "snap.py"
    /\ SnapRetry("transport")

\* snap.py: resp.status_code in (429, 503)
SnapHttpBlock ==
    /\ cpc = "request"
    /\ source_file = "snap.py"
    /\ \E status \in BlockStatuses : SnapRetry("http_block")

\* snap.py: status 200 and looks_like_block_page(html)
SnapBlockPage ==
    /\ cpc = "request"
    /\ source_file = "snap.py"
    /\ \E html \in ResponseTexts : looks_like_block_page(html)
    /\ SnapRetry("block_page")

\* status 200, no block marker, no table id="gsc_a_t"
FetchNoTable ==
    /\ cpc = "request"
    /\ \E html \in ResponseTexts : ~looks_like_block_page(html)
    /\ nreq' = nreq + 1
    /\ page_requests' = page_requests + 1
    /\ all_clean' = FALSE
    /\ Stop("no_table")
    /\ UNCHANGED <<ctlParams, cstart, page_index, block_attempts, pages_yielded,
                   any_page, cache>>
    /\ UNCHANGED sleepVars
    /\ UNCHANGED <<textVars, nameVars, aggVars, mainVars>>

\* status 200, no block marker, the table holds no row
FetchNoRows ==
    /\ cpc = "request"
    /\ \E html \in ResponseTexts : ~looks_like_block_page(html)
    /\ nreq' = nreq + 1
    /\ page_requests' = page_requests + 1
    /\ all_clean' = (all_clean /\ ProfileRows(cstart) = 0)
    /\ Stop("no_rows")
    /\ UNCHANGED <<ctlParams, cstart, page_index, block_attempts, pages_yielded,
                   any_page, cache>>
    /\ UNCHANGED sleepVars
    /\ UNCHANGED <<textVars, nameVars, aggVars, mainVars>>

\* status 200, a clean page with rows: "yield html", and the consumer's loop
\* body writes it to <user_id>_p<page_num>.htm
FetchPage ==
    /\ cpc = "request"
    /\ \E text \in ResponseTexts, rows \in 1..pagesize :
          LET html == Body(cstart, text, TRUE, rows) IN
          /\ ~looks_like_block_page(text)
          /\ nreq' = nreq + 1
          /\ page_requests' = page_requests + 1
          /\ all_clean' = (all_clean /\ rows = ProfileRows(cstart))
          /\ pages_yielded' = Append(pages_yielded, html)
          /\ any_page' = TRUE
          /\ cache' = Append(cache, html)
    /\ cpc' = "yielded"
    /\ UNCHANGED <<ctlParams, cstart, page_index, block_attempts, stop_reason>>
    /\ UNCHANGED sleepVars
    /\ UNCHANGED <<textVars, nameVars, aggVars, mainVars>>

\* the generator resumes after the yield, sleeping sleep_s seconds before the
\* next pass of "while page_index < max_pages"
ResumeSleeping(typical_delay, sleeps) ==
    /\ cpc = "yielded"
    /\ LET rows == pages_yielded[Len(pages_yielded)].rows IN
       IF IsLastPage(rows)
       THEN /\ Stop("last_page")
            /\ UNCHANGED <<cstart, page_index, block_attempts, page_requests,
                           sleepVars>>
       ELSE /\ cstart' = cstart + pagesize
            /\ page_index' = page_index + 1
            /\ \E sleep_s \in sleeps :
                  last_sleep' = [kind |-> "delay", k |-> page_index + 1,
                                 typical |-> typical_delay, slept |-> sleep_s]
            /\ slept_after' = slept_after \cup {page_index + 1}
            /\ IF page_index + 1 < max_pages
               THEN /\ cpc' = "request"
                    \* block_attempts = 0 at the top of the next page
                    /\ block_attempts' = 0
                    /\ page_requests' = 0
                    /\ UNCHANGED stop_reason
               ELSE /\ Stop("max_pages")
                    /\ UNCHANGED <<block_attempts, page_requests>>
    /\ UNCHANGED <<ctlParams, pages_yielded, nreq, all_clean, any_page, cache>>
    /\ UNCHANGED <<textVars, nameVars, aggVars, mainVars>>

\* snapp.py: random_sleep(delay)
Resume ==
    /\ source_file = "snapp.py"
    /\ ResumeSleeping(delay, random_sleep(delay))

\* snap.py: time.sleep(delay)
SnapResume ==
    /\ source_file = "snap.py"
    /\ ResumeSleeping(snap_delay, {snap_delay})

\* snapp.py: fetch_and_cache_profile after its for loop
Finish ==
    /\ cpc = "done"
    /\ source_file = "snapp.py"
    /\ cpc' = IF NoPageRaises(any_page) THEN "raised" ELSE "returned"
    /\ UNCHANGED <<ctlParams, cstart, page_index, block_attempts, pages_yielded,
                   nreq, page_requests, all_clean, stop_reason, any_page, cache>>
    /\ UNCHANGED sleepVars
    /\ UNCHANGED <<textVars, nameVars, aggVars, mainVars>>

\* snap.py: scrape_profile_all_publications_requests after its for loop;
\* "if not any_page" only prints a warning
SnapFinish ==
    /\ cpc = "done"
    /\ source_file = "snap.py"
    /\ cpc' = "returned"
    /\ UNCHANGED <<ctlParams, cstart, page_index, block_attempts, pages_yielded,
                   nreq, page_requests, all_clean, stop_reason, any_page, cache>>
    /\ UNCHANGED sleepVars
    /\ UNCHANGED <<textVars, nameVars, aggVars, mainVars>>

NextController ==
    \/ FetchTransportError
    \/ FetchHttpBlock
    \/ FetchHttpOther
    \/ FetchBlockPage
    \/ FetchNoTable
    \/ FetchNoRows
    \/ FetchPage
    \/ Resume
    \/ Finish

\* the controller of either file
NextControllers ==
    \/ NextController
    \/ SnapTransportError
    \/ SnapHttpBlock
    \/ SnapBlockPage
    \/ SnapResume
    \/ SnapFinish

SpecController == InitController /\ [][NextController]_vars

InitControllers == \E file \in {"snapp.py", "snap.py"} : InitControllerOf(file)

SpecControllers == InitControllers /\ [][NextControllers]_vars

\* the scheduler runs the generator and its consumer to their end
FairSpecControllers == SpecControllers /\ WF_vars(NextControllers)

(***************************************************************************)
(* scrape_it and scrape_profile_all_publications.  A cached page is taken  *)
(* as BeautifulSoup hands it over: the front-matter tags and the rows of   *)
(* the publications table, each row with its author text, venue text,      *)
(* title, cited-by count and year.  None is "None" for a string, -1 for an *)
(* int and <<"None">> for a name or a list.                                *)
(***************************************************************************)
NoneStr == "None"
NoneInt == -1
NoneSeq == <<"None">>

\* max_pages of scrape_profile_all_publications
MaxPagesDefault == 50

Max(S) == CHOOSE p \in S : \A q \in S : q <= p

\* substring matching in the manner of snap.py ("journal.lower() in
\* journal_info"): the first allow-list name contained in the venue text
matched_journal_substring(journal_norm, jl) ==
    LET idx == {i \in 1..Len(jl) : Contains(journal_norm, normalise_journal_name(jl[i]))}
    IN  IF idx = {} THEN NoneSeq ELSE jl[Least(idx)]

\* normalised_journal_titles.get(journal_norm), the dict being
\* {normalise_journal_name(j): j for j in journal_list}: a later j replaces an
\* earlier one with the same key
matched_journal(journal_norm, jl) ==
    LET idx == {i \in 1..Len(jl) : normalise_journal_name(jl[i]) = journal_norm}
    IN  IF idx = {} THEN NoneSeq ELSE jl[Max(idx)]

\* [a.strip() for a in authors.split(",") if a.strip()]
AuthorList(authors) ==
    LET parts == SplitOn(authors, ",")
    IN  SelectSeq([i \in 1..Len(parts) |-> Strip(parts[i])], LAMBDA a : a # <<>>)

\* the counter a matched author at ordinal counter of n increments:
\* if counter == 1 / elif counter == 2 / elif counter == len(author_list)
Position(counter, n) ==
    IF counter = 1 THEN "fa"
    ELSE IF counter = 2 THEN "sa"
    ELSE IF counter = n THEN "la"
    ELSE "none"

\* the loop "for a in author_list" from ordinal k on; acc is
\* [highlighted, fa, sa, la, exited]
RECURSIVE ScanAuthors(_, _, _, _)
ScanAuthors(al, k, candidate, acc) ==
    IF k > Len(al) THEN acc
    ELSE LET a   == al[k]
             res == compare_initialled_name_with_full_name(a, candidate)
             pos == Position(k, Len(al))
         IN  IF res = "exit" THEN [acc EXCEPT !.exited = TRUE]
             ELSE IF res = "True"
             THEN ScanAuthors(al, k + 1, candidate,
                    [acc EXCEPT !.highlighted = Append(@, <<"*", "*">> \o a \o <<"*", "*">>),
                                !.fa = @ + (IF pos = "fa" THEN 1 ELSE 0),
                                !.sa = @ + (IF pos = "sa" THEN 1 ELSE 0),
                                !.la = @ + (IF pos = "la" THEN 1 ELSE 0)])
             ELSE ScanAuthors(al, k + 1, candidate,
                    [acc EXCEPT !.highlighted = Append(@, a)])

\* the loop over the rows of the publications table from row i on; acc is the
\* page's result so far
RECURSIVE ScanRows(_, _, _, _, _)
ScanRows(rows, i, jl, candidate, acc) ==
    IF i > Len(rows) \/ acc.exited THEN acc
    ELSE LET row == rows[i] IN
         IF ~row.wellformed THEN ScanRows(rows, i + 1, jl, candidate, acc)
         ELSE LET journal_norm == normalise_journal_name(extract_journal_name(row.raw_info))
                  m    == matched_journal(journal_norm, jl)
                  seen == [acc EXCEPT !.article_count = @ + 1]
              IN  IF m = NoneSeq \/ m = <<>>
                  THEN ScanRows(rows, i + 1, jl, candidate, seen)
                  ELSE LET al == AuthorList(row.authors)
                           au == ScanAuthors(al, 1, candidate,
                                   [highlighted |-> <<>>, fa |-> 0, sa |-> 0, la |-> 0,
                                    exited |-> FALSE])
                           full_entry == [authors      |-> Join(au.highlighted, <<",", " ">>),
                                          title        |-> row.title,
                                          journal_info |-> row.raw_info,
                                          cited_by     |-> row.cited_by,
                                          year         |-> row.year]
                       IN  IF au.exited THEN [seen EXCEPT !.exited = TRUE]
                           ELSE ScanRows(rows, i + 1, jl, candidate,
                                  [seen EXCEPT !.counts[m] = @ + 1,
                                               !.fa[m] = @ + au.fa,
                                               !.sa[m] = @ + au.sa,
                                               !.la[m] = @ + au.la,
                                               !.num_authors[m] = @ + Len(al),
                                               !.details[m] = Append(@, full_entry)])

Venues(jl) == {jl[i] : i \in 1..Len(jl)}

\* the zeroed per-venue counters and empty detail lists
ZeroTotals(jl) ==
    [counts        |-> [j \in Venues(jl) |-> 0],
     fa            |-> [j \in Venues(jl) |-> 0],
     sa            |-> [j \in Venues(jl) |-> 0],
     la            |-> [j \in Venues(jl) |-> 0],
     num_authors   |-> [j \in Venues(jl) |-> 0],
     details       |-> [j \in Venues(jl) |-> <<>>],
     article_count |-> 0,
     exited        |-> FALSE]

\* the front matter scrape_it returns for a page: the name of every page, the
\* rest only "if page_idx == 0"
PageFrontMatter(page, idx) ==
    [name           |-> page.name,
     institution    |-> IF idx = 0 THEN page.institution ELSE NoneStr,
     research_areas |-> IF idx = 0 THEN page.research_areas ELSE NoneSeq,
     h_all          |-> IF idx = 0 THEN page.h_all ELSE NoneInt,
     h_5y           |-> IF idx = 0 THEN page.h_5y ELSE NoneInt,
     cit_all        |-> IF idx = 0 THEN page.cit_all ELSE NoneInt,
     cit_5y         |-> IF idx = 0 THEN page.cit_5y ELSE NoneInt]

\* scrape_it(html, journal_list, normalised_journal_titles, page_idx)
scrape_it(page, jl, idx) ==
    LET candidate == IF page.name = NoneSeq THEN <<>> ELSE page.name
        rows      == IF jl # <<>> THEN page.rows ELSE <<>>
    IN  [front  |-> PageFrontMatter(page, idx),
         counts |-> ScanRows(rows, 1, jl, candidate, ZeroTotals(jl))]

\* "total = page": the running totals replaced by the page's
AddPageOverwrite(tot, pg, jl) ==
    [counts        |-> [j \in Venues(jl) |-> pg.counts[j]],
     fa            |-> [j \in Venues(jl) |-> pg.fa[j]],
     sa            |-> [j \in Venues(jl) |-> pg.sa[j]],
     la            |-> [j \in Venues(jl) |-> pg.la[j]],
     num_authors   |-> [j \in Venues(jl) |-> pg.num_authors[j]],
     details       |-> [j \in Venues(jl) |-> pg.details[j]],
     article_count |-> pg.article_count,
     exited        |-> FALSE]

\* the per-venue counters accumulated, "total_article_count += page_article_count"
\* left out
AddPageWithoutArticleCount(tot, pg, jl) ==
    [counts        |-> [j \in Venues(jl) |-> tot.counts[j] + pg.counts[j]],
     fa            |-> [j \in Venues(jl) |-> tot.fa[j] + pg.fa[j]],
     sa            |-> [j \in Venues(jl) |-> tot.sa[j] + pg.sa[j]],
     la            |-> [j \in Venues(jl) |-> tot.la[j] + pg.la[j]],
     num_authors   |-> [j \in Venues(jl) |-> tot.num_authors[j] + pg.num_authors[j]],
     details       |-> [j \in Venues(jl) |-> tot.details[j] \o pg.details[j]],
     article_count |-> tot.article_count,
     exited        |-> FALSE]

\* "for j in journal_list: total[j] += page[j]; details[j].extend(...)" and
\* "total_article_count += page_article_count"
AddPage(tot, pg, jl) ==
    [counts        |-> [j \in Venues(jl) |-> tot.counts[j] + pg.counts[j]],
     fa            |-> [j \in Venues(jl) |-> tot.fa[j] + pg.fa[j]],
     sa            |-> [j \in Venues(jl) |-> tot.sa[j] + pg.sa[j]],
     la            |-> [j \in Venues(jl) |-> tot.la[j] + pg.la[j]],
     num_authors   |-> [j \in Venues(jl) |-> tot.num_authors[j] + pg.num_authors[j]],
     details       |-> [j \in Venues(jl) |-> tot.details[j] \o pg.details[j]],
     article_count |-> tot.article_count + pg.article_count,
     exited        |-> FALSE]

(***************************************************************************)
(* The inputs of the aggregator.                                           *)
(***************************************************************************)
\* the allow-list names, in the order list.sort() gives them
SortedVenuePool == << <<"N">>, <<"N", "m">>, <<"n">> >>

\* journal_list after sort() and dict.fromkeys(): sorted, no duplicates
JournalLists ==
    {SelectSeq(SortedVenuePool, LAMBDA v : v \in S) : S \in SUBSET Venues(SortedVenuePool)}

A_Be  == <<"A", " ", "B", "e">>
J_Sm  == <<"J", " ", "S", "m">>
K_Lo  == <<"K", " ", "L", "o">>
An_Be == <<"A", "n", " ", "B", "e">>
Jo_Sm == <<"J", "o", " ", "S", "m">>
CommaSpace == <<",", " ">>

Row(authors, raw, title, cited_by, year) ==
    [wellformed |-> TRUE, authors |-> authors, raw_info |-> raw, title |-> title,
     cited_by |-> cited_by, year |-> year]

\* a row without the title cell or with fewer than two gs_gray divs
MalformedRow == [Row(<<>>, <<>>, "T0", 0, "") EXCEPT !.wellformed = FALSE]

RowLists ==
    { <<>>,
      << Row(A_Be \o CommaSpace \o J_Sm, <<"N", ",", " ", "1">>, "T1", 3, "Y1"),
         Row(J_Sm \o CommaSpace \o A_Be, <<"N", "m", " ", "1">>, "T2", 0, "Y2") >>,
      << Row(A_Be, <<"N", "m", " ", "a", " ", "1">>, "T3", 1, "Y1"),
         Row(J_Sm \o CommaSpace \o K_Lo \o CommaSpace \o A_Be, <<"n", " ", "1">>, "T4", 2, "") >>,
      << MalformedRow,
         Row(A_Be \o CommaSpace \o J_Sm, <<"N", ",", " ", "1">>, "T1", 3, "Y1") >>,
      << Row(ABC_Smith, <<"N", "m", ",", "1">>, "T5", 0, "Y2") >> }

FrontMatters ==
    { [name |-> An_Be, institution |-> "U1", research_areas |-> <<"ra1">>,
       h_all |-> 5, h_5y |-> 3, cit_all |-> 9, cit_5y |-> 4],
      [name |-> Jo_Sm, institution |-> "U2", research_areas |-> <<>>,
       h_all |-> 7, h_5y |-> 7, cit_all |-> 8, cit_5y |-> 8],
      [name |-> NoneSeq, institution |-> NoneStr, research_areas |-> <<>>,
       h_all |-> NoneInt, h_5y |-> NoneInt, cit_all |-> NoneInt, cit_5y |-> NoneInt] }

Page(fm, rows) ==
    [name |-> fm.name, institution |-> fm.institution,
     research_areas |-> fm.research_areas, h_all |-> fm.h_all, h_5y |-> fm.h_5y,
     cit_all |-> fm.cit_all, cit_5y |-> fm.cit_5y, rows |-> rows,
     readable |-> TRUE]

PagePool == {Page(fm, rows) : fm \in FrontMatters, rows \in RowLists}

\* the characters of the venue text of the single row
VenueAlphabet == {"N", "n", "m", " ", ",", "1"}

\* scrape_profile_all_publications, lines 662-682
AggStart ==
    /\ apc = "loop"
    /\ page_idx = 0
    /\ front_matter = [name |-> NoneSeq, institution |-> NoneStr, research_areas |-> <<>>,
                       h_all |-> NoneInt, h_5y |-> NoneInt, cit_all |-> NoneInt,
                       cit_5y |-> NoneInt]
    /\ totals = ZeroTotals(journal_list)
    /\ info_found = FALSE

InitAggregator ==
    /\ journal_list \in JournalLists
    /\ html_files \in StringsUpTo(PagePool, MaxCachedPages)
    /\ AggStart
    /\ TextIdle
    /\ NameIdle
    /\ CtlIdle
    /\ MainIdle

\* one cached page holding one publication row with any venue text
InitScrapeEntry ==
    /\ journal_list \in JournalLists
    /\ \E raw \in StringsUpTo(VenueAlphabet, MaxVenueLen) :
          html_files = << Page(CHOOSE fm \in FrontMatters : fm.name = An_Be,
                               << Row(A_Be, raw, "T1", 1, "Y1") >>) >>
    /\ AggStart
    /\ TextIdle
    /\ NameIdle
    /\ CtlIdle
    /\ MainIdle

\* the file of page page_idx + 1 exists: scrape it and accumulate
ScrapeCachedPage ==
    /\ apc = "loop"
    /\ page_idx + 1 <= MaxPagesDefault
    /\ page_idx + 1 <= Len(html_files)
    /\ LET r == scrape_it(html_files[page_idx + 1], journal_list, page_idx) IN
       IF ~html_files[page_idx + 1].readable
       THEN \* open(path) raises OSError after "any_page = True"
            /\ apc' = "raised"
            /\ info_found' = TRUE
            /\ UNCHANGED <<page_idx, front_matter, totals>>
       ELSE IF r.counts.exited
       THEN /\ apc' = "exited"
            /\ info_found' = TRUE
            /\ UNCHANGED <<page_idx, front_matter, totals>>
       ELSE /\ info_found' = TRUE
            /\ front_matter' = r.front
            /\ totals' = AddPage(totals, r.counts, journal_list)
            /\ page_idx' = page_idx + 1
            /\ UNCHANGED apc
    /\ UNCHANGED <<journal_list, html_files>>
    /\ UNCHANGED <<textVars, nameVars, ctlVars, mainVars>>

\* no file for page page_idx + 1 (or max_pages files read): return
NoMoreCachedPages ==
    /\ apc = "loop"
    /\ (page_idx + 1 > Len(html_files) \/ page_idx + 1 > MaxPagesDefault)
    /\ apc' = "returned"
    /\ UNCHANGED <<journal_list, html_files, page_idx, front_matter, totals, info_found>>
    /\ UNCHANGED <<textVars, nameVars, ctlVars, mainVars>>

NextAggregator == ScrapeCachedPage \/ NoMoreCachedPages

SpecAggregator == InitAggregator /\ [][NextAggregator]_vars

SpecScrapeEntry == InitScrapeEntry /\ [][NextAggregator]_vars

(***************************************************************************)
(* scrape_it of snap.py and the accumulation of its counts by              *)
(* scrape_profile_all_publications_requests, over the same pages.          *)
(***************************************************************************)
\* journal_info = gray_elems[1].get_text(strip=True).lower(); for journal in
\* journal_list: if journal.lower() in journal_info: counts[journal] += 1
snap_row_counts(row, jl) ==
    LET journal_info == Lower(Strip(row.raw_info)) IN
    [j \in Venues(jl) |-> IF Contains(journal_info, Lower(j)) THEN 1 ELSE 0]

RECURSIVE snap_scan_rows(_, _, _, _)
\* the loop over the rows of table gsc_a_t: a row with fewer than two gs_gray
\* divs is skipped, any other counts as an article
snap_scan_rows(rows, i, jl, acc) ==
    IF i > Len(rows) THEN acc
    ELSE IF ~rows[i].wellformed THEN snap_scan_rows(rows, i + 1, jl, acc)
    ELSE snap_scan_rows(rows, i + 1, jl,
            [acc EXCEPT !.counts = [j \in Venues(jl) |->
                                       acc.counts[j] + snap_row_counts(rows[i], jl)[j]],
                        !.article_count = acc.article_count + 1])

\* snap.py scrape_it(html, journal_list): "if table_pubs and journal_list"
snap_scrape_it(page, jl) ==
    snap_scan_rows(IF jl # <<>> THEN page.rows ELSE <<>>, 1, jl, ZeroTotals(jl))

\* one pass of the loop of scrape_profile_all_publications_requests
SnapScrapePage ==
    /\ apc = "loop"
    /\ page_idx + 1 <= Len(html_files)
    /\ LET pg == snap_scrape_it(html_files[page_idx + 1], journal_list) IN
       /\ info_found' = TRUE
       /\ front_matter' = IF page_idx = 0
                          THEN PageFrontMatter(html_files[1], 0)
                          ELSE front_matter
       /\ totals' = [totals EXCEPT
                        !.counts = [j \in Venues(journal_list) |->
                                       totals.counts[j] + pg.counts[j]],
                        !.article_count = totals.article_count + pg.article_count]
       /\ page_idx' = page_idx + 1
    /\ UNCHANGED <<apc, journal_list, html_files>>
    /\ UNCHANGED <<textVars, nameVars, ctlVars, mainVars>>

\* the generator is exhausted
SnapNoMorePages ==
    /\ apc = "loop"
    /\ page_idx + 1 > Len(html_files)
    /\ apc' = "returned"
    /\ UNCHANGED <<journal_list, html_files, page_idx, front_matter, totals, info_found>>
    /\ UNCHANGED <<textVars, nameVars, ctlVars, mainVars>>

NextSnapAggregator == SnapScrapePage \/ SnapNoMorePages

SpecSnapScrapeEntry == InitScrapeEntry /\ [][NextSnapAggregator]_vars

(***************************************************************************)
(* main: the mode selection, the fetch loop over the candidates with its   *)
(* suspected-block prompt, the scraping loop calling process_profile, and  *)
(* the report.  A candidate is a row of the HR sheet: whether it has a     *)
(* usable Scholar link, how the server answers the first request for its   *)
(* profile (the ways iter_scholar_pages_requests stops before any yield,   *)
(* or "pages"), the pages it serves, and the pages already cached for it.  *)
(***************************************************************************)
PlainPage ==
    Page(CHOOSE fm \in FrontMatters : fm.name = An_Be,
         << Row(A_Be \o CommaSpace \o J_Sm, <<"N", ",", " ", "1">>, "T1", 3, "Y1") >>)

\* a page with a venue-matched entry whose author token has two hyphens
MultiHyphenPage ==
    Page(CHOOSE fm \in FrontMatters : fm.name = An_Be,
         << Row(ABC_Smith, <<"N", ",", "1">>, "T5", 0, "Y2") >>)

\* a page without front matter and without rows
NoDataPage ==
    Page(CHOOSE fm \in FrontMatters : fm.name = NoneSeq, <<>>)

\* a cached file that exists and cannot be opened for reading
UnreadableFile == [NoDataPage EXCEPT !.readable = FALSE]

Candidate(url_ok, server, content, stale) ==
    [url_ok |-> url_ok, server |-> server, content |-> content, stale |-> stale]

CandidatePool ==
    { Candidate(TRUE, "pages", <<PlainPage>>, <<>>),
      Candidate(TRUE, "pages", <<PlainPage>>, <<PlainPage, MultiHyphenPage>>),
      Candidate(TRUE, "pages", <<MultiHyphenPage>>, <<>>),
      Candidate(TRUE, "http_block", <<>>, <<PlainPage>>),
      Candidate(TRUE, "block_page", <<>>, <<>>),
      Candidate(TRUE, "transport", <<>>, <<>>),
      Candidate(TRUE, "http_error", <<>>, <<MultiHyphenPage>>),
      Candidate(TRUE, "no_table", <<>>, <<>>),
      Candidate(TRUE, "pages", <<NoDataPage>>, <<>>),
      Candidate(TRUE, "pages", <<PlainPage>>, <<NoDataPage, PlainPage>>),
      Candidate(TRUE, "transport", <<>>, <<UnreadableFile>>),
      Candidate(FALSE, "pages", <<PlainPage>>, <<PlainPage>>) }

\* candidate_id is the sheet's "Candidate" column, not the row number
IdBases == {0, 100}

\* the allow-list of the run
MainJournalList == SortedVenuePool

\* "if not OFFLINE_MODE" in front of the fetch loop, branch always taken
EntersFetchLoopAlways(offline) == TRUE

\* "if not OFFLINE_MODE" in front of the fetch loop
EntersFetchLoop(offline) == ~offline

\* the cached files of a profile removed before its pages are written
WritePagesAfterClearing(old, new) == new

\* the files of a profile after its pages were written over the cached ones:
\* <user_id>_p1.htm .. _pn.htm replaced, files of higher pages left as they were
WritePages(old, new) ==
    new \o SubSeq(old, Len(new) + 1, Len(old))

\* an "except Exception" that re-raises as "except AuthorMatchError" does
ExceptionOutcomePropagates == "exit"

\* "except Exception as e: ... return empty_record(candidate, journal_list)"
ExceptionOutcome == "placeholder"

\* a handler that turns the exit into a placeholder record
ExitOutcomePlaceholder == "placeholder"

\* exit(1) raises SystemExit, which neither "except AuthorMatchError" nor
\* "except Exception" catches
ExitOutcome == "exit"

\* what process_profile makes of the return (or exit) of
\* scrape_profile_all_publications: "exit", "placeholder" (empty_record) or
\* "record"
process_profile ==
    IF apc = "exited" THEN ExitOutcome
    ELSE IF apc = "raised" THEN ExceptionOutcome
    ELSE IF ~info_found THEN "placeholder"
    ELSE IF /\ front_matter.name = NoneSeq
            /\ front_matter.institution = NoneStr
            /\ front_matter.research_areas \in {NoneSeq, <<>>}
            /\ \A V \in Venues(journal_list) : totals.counts[V] = 0
         THEN "placeholder"
         ELSE "record"

\* normalised_journal_titles is assigned only in the else branch, when the
\* journal-list file exists
normalised_journal_titles_bound(file) == file = "found"

\* journal_list after the journal-list file was looked for
LoadJournalList(file) == IF file = "found" THEN MainJournalList ELSE <<>>

Event(ev, k) == [ev |-> ev, row |-> k, id |-> id_base + k]

InitMain ==
    /\ mpc = "modes"
    /\ OFFLINE_MODE \in BOOLEAN
    /\ FETCH_ONLY_MODE \in BOOLEAN
    /\ ~(OFFLINE_MODE /\ FETCH_ONLY_MODE)
    /\ ACCEPT_DEFAULTS \in BOOLEAN
    /\ journal_file \in {"found", "missing"}
    /\ df_hr \in StringsUpTo(CandidatePool, MaxCandidates)
    /\ id_base \in IdBases
    /\ html_dir = [k \in 1..Len(df_hr) |-> df_hr[k].stale]
    /\ fetch_i = 1
    /\ scrape_i = 1
    /\ records = <<>>
    /\ trace = <<>>
    /\ apc = "idle"
    /\ journal_list = LoadJournalList(journal_file)
    /\ html_files = <<>>
    /\ page_idx = 0
    /\ front_matter = <<>>
    /\ totals = <<>>
    /\ info_found = FALSE
    /\ RangeIdle
    /\ TextIdle
    /\ NameIdle
    /\ CtlIdle

\* the offline and fetch-only prompts, then "if not OFFLINE_MODE" at the fetch loop
ChooseMode ==
    /\ mpc = "modes"
    /\ \E offline_answer, fetch_only_answer \in {"y", "n"} :
          LET ask      == ~OFFLINE_MODE /\ ~FETCH_ONLY_MODE /\ ~ACCEPT_DEFAULTS
              offline  == IF ask /\ offline_answer = "y" THEN TRUE ELSE OFFLINE_MODE
              fetch_only == IF ask /\ ~offline /\ fetch_only_answer = "y"
                            THEN TRUE ELSE FETCH_ONLY_MODE
          IN  /\ OFFLINE_MODE' = offline
              /\ FETCH_ONLY_MODE' = fetch_only
              /\ mpc' = IF EntersFetchLoop(offline) THEN "fetch" ELSE "scrape"
    /\ UNCHANGED <<ACCEPT_DEFAULTS, journal_file, df_hr, id_base, html_dir, fetch_i, scrape_i,
                   records, trace>>
    /\ UNCHANGED <<textVars, nameVars, ctlVars, aggVars, rangeVars>>

\* fetch_and_cache_profile returns False: no usable link, nothing requested
FetchSkipsCandidate ==
    /\ mpc = "fetch"
    /\ fetch_i <= Len(df_hr)
    /\ ~df_hr[fetch_i].url_ok
    /\ trace' = trace \o <<Event("banner", fetch_i), Event("unable", fetch_i)>>
    /\ fetch_i' = fetch_i + 1
    /\ UNCHANGED <<mpc, OFFLINE_MODE, FETCH_ONLY_MODE, ACCEPT_DEFAULTS, journal_file, df_hr, id_base,
                   html_dir, scrape_i, records>>
    /\ UNCHANGED <<textVars, nameVars, ctlVars, aggVars, rangeVars>>

\* fetch_and_cache_profile returns True: every yielded page written to html_dir
FetchCachesProfile ==
    /\ mpc = "fetch"
    /\ fetch_i <= Len(df_hr)
    /\ df_hr[fetch_i].url_ok
    /\ ~NoPageRaises(df_hr[fetch_i].server = "pages")
    /\ trace' = trace \o <<Event("banner", fetch_i), Event("request", fetch_i),
                           Event("cached", fetch_i)>>
    /\ html_dir' = [html_dir EXCEPT
                      ![fetch_i] = WritePages(@, df_hr[fetch_i].content)]
    /\ fetch_i' = fetch_i + 1
    /\ UNCHANGED <<mpc, OFFLINE_MODE, FETCH_ONLY_MODE, ACCEPT_DEFAULTS, journal_file, df_hr, id_base,
                   scrape_i, records>>
    /\ UNCHANGED <<textVars, nameVars, ctlVars, aggVars, rangeVars>>

\* fetch_and_cache_profile raises GSBlockedError (no page was yielded), and
\* main asks the operator
FetchRaisesBlocked ==
    /\ mpc = "fetch"
    /\ fetch_i <= Len(df_hr)
    /\ df_hr[fetch_i].url_ok
    /\ NoPageRaises(df_hr[fetch_i].server = "pages")
    /\ trace' = trace \o <<Event("banner", fetch_i), Event("request", fetch_i),
                           Event("prompt", fetch_i)>>
    /\ mpc' = "prompt"
    /\ UNCHANGED <<OFFLINE_MODE, FETCH_ONLY_MODE, ACCEPT_DEFAULTS, journal_file, df_hr, id_base,
                   html_dir, fetch_i, scrape_i, records>>
    /\ UNCHANGED <<textVars, nameVars, ctlVars, aggVars, rangeVars>>

\* a return after the fetch loop in every mode
AfterFetchLoopReturns(fetch_only) == "done"

\* after the fetch loop: "if FETCH_ONLY_MODE: ... return", else on to the
\* scraping loop
AfterFetchLoop(fetch_only) == IF fetch_only THEN "done" ELSE "scrape"

\* answer 'c': sleep and go on with the next candidate
AnswerContinue ==
    /\ mpc = "prompt"
    /\ trace' = Append(trace, Event("continue", fetch_i))
    /\ fetch_i' = fetch_i + 1
    /\ mpc' = "fetch"
    /\ UNCHANGED <<OFFLINE_MODE, FETCH_ONLY_MODE, ACCEPT_DEFAULTS, journal_file, df_hr, id_base,
                   html_dir, scrape_i, records>>
    /\ UNCHANGED <<textVars, nameVars, ctlVars, aggVars, rangeVars>>

\* any other answer: break out of the fetch loop
AnswerStop ==
    /\ mpc = "prompt"
    /\ trace' = Append(trace, Event("stop", fetch_i))
    /\ mpc' = AfterFetchLoop(FETCH_ONLY_MODE)
    /\ UNCHANGED <<OFFLINE_MODE, FETCH_ONLY_MODE, ACCEPT_DEFAULTS, journal_file, df_hr, id_base,
                   html_dir, fetch_i, scrape_i, records>>
    /\ UNCHANGED <<textVars, nameVars, ctlVars, aggVars, rangeVars>>

\* the fetch loop left before it has gone through the candidates
FetchLoopExhaustedAtOnce(i, n) == TRUE

\* "for candidate in df_hr.itertuples()" has no candidate left
FetchLoopExhausted(i, n) == i > n

\* the fetch loop has gone through every candidate
FetchLoopEnds ==
    /\ mpc = "fetch"
    /\ FetchLoopExhausted(fetch_i, Len(df_hr))
    /\ mpc' = AfterFetchLoop(FETCH_ONLY_MODE)
    /\ UNCHANGED <<OFFLINE_MODE, FETCH_ONLY_MODE, ACCEPT_DEFAULTS, journal_file, df_hr, id_base,
                   html_dir, fetch_i, scrape_i, records, trace>>
    /\ UNCHANGED <<textVars, nameVars, ctlVars, aggVars, rangeVars>>

\* the call of process_profile evaluates its argument
\* normalised_journal_titles, which is unbound: UnboundLocalError ends main
ProcessingCrashes ==
    /\ mpc = "scrape"
    /\ apc = "idle"
    /\ scrape_i <= Len(df_hr)
    /\ ~normalised_journal_titles_bound(journal_file)
    /\ mpc' = "crashed"
    /\ trace' = Append(trace, Event("traceback", scrape_i))
    /\ UNCHANGED <<OFFLINE_MODE, FETCH_ONLY_MODE, ACCEPT_DEFAULTS, journal_file, df_hr,
                   id_base, html_dir, fetch_i, scrape_i, records>>
    /\ UNCHANGED <<textVars, nameVars, ctlVars, aggVars, rangeVars>>

\* process_profile returns empty_record at once: no usable link
ProfileSkipped ==
    /\ mpc = "scrape"
    /\ apc = "idle"
    /\ scrape_i <= Len(df_hr)
    /\ normalised_journal_titles_bound(journal_file)
    /\ ~df_hr[scrape_i].url_ok
    /\ records' = Append(records, [row |-> scrape_i, kind |-> "placeholder"])
    /\ trace' = Append(trace, Event("aggregated", scrape_i))
    /\ scrape_i' = scrape_i + 1
    /\ UNCHANGED <<mpc, OFFLINE_MODE, FETCH_ONLY_MODE, ACCEPT_DEFAULTS, journal_file, df_hr, id_base,
                   html_dir, fetch_i>>
    /\ UNCHANGED <<textVars, nameVars, ctlVars, aggVars, rangeVars>>

\* process_profile calls scrape_profile_all_publications on the profile's
\* cached pages
ProfileOpened ==
    /\ mpc = "scrape"
    /\ apc = "idle"
    /\ scrape_i <= Len(df_hr)
    /\ normalised_journal_titles_bound(journal_file)
    /\ df_hr[scrape_i].url_ok
    /\ html_files' = html_dir[scrape_i]
    /\ apc' = "loop"
    /\ page_idx' = 0
    /\ front_matter' = [name |-> NoneSeq, institution |-> NoneStr,
                        research_areas |-> <<>>, h_all |-> NoneInt, h_5y |-> NoneInt,
                        cit_all |-> NoneInt, cit_5y |-> NoneInt]
    /\ totals' = ZeroTotals(journal_list)
    /\ info_found' = FALSE
    /\ UNCHANGED journal_list
    /\ UNCHANGED mainVars
    /\ UNCHANGED <<textVars, nameVars, ctlVars, rangeVars>>

\* scrape_profile_all_publications has returned or exited: the record is
\* appended, or the exit ends the run
ProfileClosed ==
    /\ mpc = "scrape"
    /\ apc \in {"returned", "exited", "raised"}
    /\ IF process_profile = "exit"
       THEN /\ mpc' = "exited"
            /\ trace' = Append(trace, Event("fatal", scrape_i))
            /\ UNCHANGED <<scrape_i, records>>
       ELSE /\ records' = Append(records, [row |-> scrape_i, kind |-> process_profile])
            /\ trace' = Append(trace, Event("aggregated", scrape_i))
            /\ scrape_i' = scrape_i + 1
            /\ UNCHANGED mpc
    /\ apc' = "idle"
    /\ UNCHANGED <<journal_list, html_files, page_idx, front_matter, totals, info_found>>
    /\ UNCHANGED <<OFFLINE_MODE, FETCH_ONLY_MODE, ACCEPT_DEFAULTS, journal_file, df_hr, id_base,
                   html_dir, fetch_i>>
    /\ UNCHANGED <<textVars, nameVars, ctlVars, rangeVars>>

\* after the scraping loop: "No records to write" or the xlsx and docx reports
WriteReports ==
    /\ mpc = "scrape"
    /\ apc = "idle"
    /\ scrape_i > Len(df_hr)
    /\ trace' = IF records = <<>> THEN trace ELSE Append(trace, Event("report", 0))
    /\ mpc' = "done"
    /\ UNCHANGED <<OFFLINE_MODE, FETCH_ONLY_MODE, ACCEPT_DEFAULTS, journal_file, df_hr, id_base,
                   html_dir, fetch_i, scrape_i, records>>
    /\ UNCHANGED <<textVars, nameVars, ctlVars, aggVars, rangeVars>>

NextMain ==
    \/ ChooseMode
    \/ FetchSkipsCandidate
    \/ FetchCachesProfile
    \/ FetchRaisesBlocked
    \/ AnswerContinue
    \/ AnswerStop
    \/ FetchLoopEnds
    \/ ProcessingCrashes
    \/ ProfileSkipped
    \/ ProfileOpened
    \/ ScrapeCachedPage
    \/ NoMoreCachedPages
    \/ ProfileClosed
    \/ WriteReports

SpecMain == InitMain /\ [][NextMain]_vars

(***************************************************************************)
(* main: the two prompts that select the candidate range.  df_hr is kept   *)
(* as the 1-based sheet numbers of its rows; an entry is blank, a text     *)
(* that int() rejects, or an integer.                                      *)
(***************************************************************************)
\* "default_last = 5"
default_last == 5

Entries(n) ==
    {[kind |-> "blank", n |-> 0], [kind |-> "text", n |-> 0]}
        \cup {[kind |-> "int", n |-> k] : k \in 0..(n + 1)}

\* the number the prompt takes from an entry: the default for a blank entry and
\* on ValueError
EntryNumber(entry, default) == IF entry.kind = "int" THEN entry.n ELSE default

\* df.iloc[a:] for a >= 0
ILocFrom(rows, a) == SubSeq(rows, a + 1, Len(rows))

\* df.iloc[:b]: the first b rows; for a negative b all but the last -b rows
ILocTo(rows, b) ==
    IF b >= 0
    THEN SubSeq(rows, 1, IF b < Len(rows) THEN b ELSE Len(rows))
    ELSE SubSeq(rows, 1, IF Len(rows) + b > 0 THEN Len(rows) + b ELSE 0)

InitRange ==
    /\ rpc = "start"
    /\ sheet_len \in 1..MaxSheetLen
    /\ df_rows = [k \in 1..sheet_len |-> k]
    /\ start_entry = NoEntry
    /\ end_entry = NoEntry
    /\ start_candidate_num = 0
    /\ end_candidate_num = 0
    /\ RunIdle
    /\ TextIdle
    /\ NameIdle
    /\ CtlIdle
    /\ AggIdle

\* "Enter the candidate number to start processing from (default 1)"
AnswerStartPrompt ==
    /\ rpc = "start"
    /\ \E entry \in Entries(sheet_len) :
          LET typed == EntryNumber(entry, 1)
              start == IF typed < 1 \/ typed > Len(df_rows) THEN 1 ELSE typed
          IN  /\ start_entry' = entry
              /\ start_candidate_num' = start
              /\ df_rows' = ILocFrom(df_rows, start - 1)
    /\ rpc' = "end"
    /\ UNCHANGED <<sheet_len, end_entry, end_candidate_num>>
    /\ UNCHANGED <<mpc, OFFLINE_MODE, FETCH_ONLY_MODE, ACCEPT_DEFAULTS, journal_file, df_hr,
                   id_base, html_dir, fetch_i, scrape_i, records, trace>>
    /\ UNCHANGED <<textVars, nameVars, ctlVars, aggVars>>

\* "Enter the candidate number to stop processing on (default {default_last})"
AnswerEndPrompt ==
    /\ rpc = "end"
    /\ \E entry \in Entries(sheet_len) :
          LET typed == EntryNumber(entry, default_last)
              end   == IF typed < start_candidate_num \/ typed > default_last
                       THEN default_last ELSE typed
          IN  /\ end_entry' = entry
              /\ end_candidate_num' = end
              /\ df_rows' = ILocTo(df_rows, end - start_candidate_num + 1)
    /\ rpc' = "selected"
    /\ UNCHANGED <<sheet_len, start_entry, start_candidate_num>>
    /\ UNCHANGED <<mpc, OFFLINE_MODE, FETCH_ONLY_MODE, ACCEPT_DEFAULTS, journal_file, df_hr,
                   id_base, html_dir, fetch_i, scrape_i, records, trace>>
    /\ UNCHANGED <<textVars, nameVars, ctlVars, aggVars>>

NextRange == AnswerStartPrompt \/ AnswerEndPrompt

SpecRange == InitRange /\ [][NextRange]_vars

(***************************************************************************)
(* The text functions applied to every bounded input.                      *)
(***************************************************************************)
InitText ==
    /\ tpc = "input"
    /\ raw_info \in StringsUpTo(TextAlphabet, MaxLen)
    /\ name_norm = <<>>
    /\ name_norm2 = <<>>
    /\ journal_title = <<>>
    /\ NameIdle
    /\ CtlIdle
    /\ AggIdle
    /\ MainIdle

\* name = normalise_journal_name(raw_info)
Normalise ==
    /\ tpc = "input"
    /\ name_norm' = normalise_journal_name(raw_info)
    /\ tpc' = "normalised"
    /\ UNCHANGED <<raw_info, name_norm2, journal_title>>
    /\ UNCHANGED <<nameVars, ctlVars, aggVars, mainVars>>

\* the function applied to its own result
NormaliseAgain ==
    /\ tpc = "normalised"
    /\ name_norm2' = normalise_journal_name(name_norm)
    /\ tpc' = "renormalised"
    /\ UNCHANGED <<raw_info, name_norm, journal_title>>
    /\ UNCHANGED <<nameVars, ctlVars, aggVars, mainVars>>

\* journal_title = extract_journal_name(raw_info)
Extract ==
    /\ tpc = "input"
    /\ journal_title' = extract_journal_name(raw_info)
    /\ tpc' = "extracted"
    /\ UNCHANGED <<raw_info, name_norm, name_norm2>>
    /\ UNCHANGED <<nameVars, ctlVars, aggVars, mainVars>>

NextText == Normalise \/ NormaliseAgain \/ Extract

SpecText == InitText /\ [][NextText]_vars

(***************************************************************************)
(* Claims about the controller.                                            *)
(***************************************************************************)
\* ceil(total_rows / pagesize)
CeilPages == (total_rows + pagesize - 1) \div pagesize

\* every fetch was a clean page of a profile whose last page is short
CleanProfileRun ==
    /\ stop_reason # ""
    /\ all_clean
    /\ total_rows >= 1
    /\ total_rows % pagesize # 0

\* the first n pages of the profile were yielded, in page order, with n requests
YieldedFirstPages(n) ==
    /\ Len(pages_yielded) = n
    /\ nreq = n
    /\ \A i \in 1..n :
          /\ pages_yielded[i].cstart = (i - 1) * pagesize
          /\ pages_yielded[i].rows = ProfileRows((i - 1) * pagesize)

(***************************************************************************)
(* C1 (as claimed).  With clean fetches of a profile of total_rows >= 1    *)
(* rows whose last page is short, the generator yields exactly             *)
(* ceil(total_rows/pagesize) pages in page order and requests no more.     *)
(***************************************************************************)
C1_YieldsCeilPages == CleanProfileRun => YieldedFirstPages(CeilPages)

(***************************************************************************)
(* C1 (amended).  The same holds when ceil(total_rows/pagesize) is at most *)
(* max_pages; a longer profile yields exactly its first max_pages pages    *)
(* and no request follows them.                                            *)
(***************************************************************************)
C1_YieldsCeilPagesUpToMaxPages ==
    CleanProfileRun =>
        IF CeilPages <= max_pages
        THEN YieldedFirstPages(CeilPages) /\ stop_reason = "last_page"
        ELSE YieldedFirstPages(max_pages) /\ stop_reason = "max_pages"

\* a profile of several pages, the last one short, fully yielded
C1_Witness ==
    /\ cpc = "returned"
    /\ CleanProfileRun
    /\ CeilPages >= 3
    /\ Len(pages_yielded) = CeilPages
    /\ pages_yielded[CeilPages].rows < pagesize

(***************************************************************************)
(* C2.  A 429/503 response and a 200 block-marker page are retried like a  *)
(* transport error: pagination ends on them only once block_attempts       *)
(* exceeds max_block_retries.                                              *)
(***************************************************************************)
C2_BlockRetriedUntilBudget ==
    stop_reason \in {"http_block", "block_page"} => block_attempts > max_block_retries

(***************************************************************************)
(* C3.  When a block-marker page ends pagination on the first page, no     *)
(* page is yielded and fetch_and_cache_profile raises GSBlockedError; on a *)
(* later page no error is raised and every page yielded before stays in    *)
(* the cache.                                                              *)
(***************************************************************************)
C3_BlockPageFirstVersusLater ==
    stop_reason = "block_page" =>
        IF page_index = 0
        THEN /\ pages_yielded = <<>>
             /\ cpc \in {"done", "raised"}
        ELSE /\ cpc \in {"done", "returned"}
             /\ Len(pages_yielded) = page_index
             /\ \A i \in 1..page_index : cache[i] = pages_yielded[i]

\* the block page arrives on the first page with the retry budget used up,
\* and the error is raised
C3_Witness ==
    /\ cpc = "raised"
    /\ stop_reason = "block_page"
    /\ page_index = 0
    /\ block_attempts = max_block_retries
    /\ pages_yielded = <<>>

(***************************************************************************)
(* Shapes of a full name 'First P1 ... Pk Last', read off its parts.       *)
(***************************************************************************)
NameParts == SplitOnSpace(full_name)

StartsUpper(part) == IsAlpha(part) /\ part[1] \in UpperLetters
StartsLower(part) == IsAlpha(part) /\ part[1] \in LowerLetters

\* First is alphabetic and capitalised, and neither name has two hyphens
PlainFirstAndLast ==
    /\ Len(NameParts) >= 2
    /\ StartsUpper(NameParts[1])
    /\ HyphenCount(full_name) <= 1

ParticleIndexes == 2..(Len(NameParts) - 1)

\* the author token is '<initial of First> P1 ... Pk Last'
InitialledWithParticles ==
    initialled_name = InitialAndParticles(NameParts)

(***************************************************************************)
(* C10 (as claimed).  For a full name whose surname particles start with   *)
(* an uppercase letter, '<initial of First> P1 ... Pk Last' is classified  *)
(* as the candidate; "A Van Der Berg" matches "Anna Van Der Berg".         *)
(***************************************************************************)
C10_UppercaseParticlesMatch ==
    (/\ npc # "call"
     /\ PlainFirstAndLast
     /\ \A i \in ParticleIndexes : StartsUpper(NameParts[i])
     /\ InitialledWithParticles)
    => cmp_result = "True"

(***************************************************************************)
(* C10 (amended).  '<initial of First> P1 ... Pk Last' is classified as    *)
(* the candidate when the particles are alphabetic and start with a       *)
(* lowercase letter; with k >= 1 particles that start with an uppercase    *)
(* letter it is not, so "A Van Der Berg" does not match                    *)
(* "Anna Van Der Berg".                                                    *)
(***************************************************************************)
C10_LowercaseParticlesMatch ==
    (npc # "call" /\ PlainFirstAndLast /\ InitialledWithParticles) =>
        /\ (\A i \in ParticleIndexes : StartsLower(NameParts[i]))
              => cmp_result = "True"
        /\ (ParticleIndexes # {} /\ \A i \in ParticleIndexes : StartsUpper(NameParts[i]))
              => cmp_result = "False"

\* the lowercase-particle example is classified, the uppercase one is not
C10_Witness ==
    /\ npc = "returned"
    /\ full_name = Anna_van_der_Berg
    /\ initialled_name = A_van_der_Berg
    /\ cmp_result = "True"

(***************************************************************************)
(* C6.  normalise_journal_name is idempotent: applied to its own result it *)
(* returns that result.                                                    *)
(***************************************************************************)
C6_Idempotent == tpc = "renormalised" => name_norm2 = name_norm

(***************************************************************************)
(* C7.  normalise_journal_name(s) is s lowercased, punctuation removed,    *)
(* whitespace runs collapsed to one space and then trimmed, so it neither  *)
(* starts nor ends with a space.                                           *)
(***************************************************************************)
C7_EqualsReference ==
    tpc = "normalised" =>
        /\ name_norm = Strip(CollapseSpaces(RemovePunct(Lower(raw_info))))
        /\ name_norm # <<>> => (Head(name_norm) # " " /\ name_norm[Len(name_norm)] # " ")

(***************************************************************************)
(* C8.  extract_journal_name(raw) is the trimmed prefix of the trimmed     *)
(* input that ends just before the first boundary, and the whole trimmed   *)
(* input when it holds no boundary.                                        *)
(***************************************************************************)
C8_PrefixBeforeFirstBoundary ==
    tpc = "extracted" =>
        LET s == Strip(raw_info)
            B == {p \in 0..Len(s) : BoundaryAt(s, p + 1)}
        IN  journal_title = IF B # {} THEN Strip(SubSeq(s, 1, Least(B))) ELSE s

(***************************************************************************)
(* Claims about the page aggregator and the venue matcher.                 *)
(***************************************************************************)
\* what scrape_it counts on cached page i of the profile
PageResult(i) == scrape_it(html_files[i], journal_list, i - 1).counts

RECURSIVE SumCounts(_, _)
SumCounts(V, n) ==
    IF n = 0 THEN 0 ELSE SumCounts(V, n - 1) + PageResult(n).counts[V]

RECURSIVE ConcatDetails(_, _)
ConcatDetails(V, n) ==
    IF n = 0 THEN <<>> ELSE ConcatDetails(V, n - 1) \o PageResult(n).details[V]

\* C4: for a profile of N >= 1 cached pages the returned front matter (name,
\* institution, research areas, h-index pair, citation pair) is what the first
\* page holds, whatever the later pages contain.
C4_FrontMatterFromFirstPage ==
    (apc = "returned" /\ Len(html_files) >= 1)
        => front_matter = PageFrontMatter(html_files[1], 0)

\* C5: for every venue V of the allow-list, after the first n pages have been
\* aggregated the total of V is the sum of the pages' match counts for V and
\* the detail lines of V are the pages' detail lines concatenated in page order.
C5_TotalsAreSumsInPageOrder ==
    (apc \in {"loop", "returned"})
        => \A V \in Venues(journal_list) :
              /\ totals.counts[V] = SumCounts(V, page_idx)
              /\ totals.details[V] = ConcatDetails(V, page_idx)

\* two pages aggregated, both with an entry of the same venue
C5_Witness ==
    /\ apc = "returned"
    /\ page_idx = 2
    /\ \E V \in Venues(journal_list) :
          /\ PageResult(1).counts[V] >= 1
          /\ PageResult(2).counts[V] >= 1
          /\ totals.counts[V] = PageResult(1).counts[V] + PageResult(2).counts[V]

\* the normalised venue name extracted from the single row of the single page
EntryVenue ==
    normalise_journal_name(extract_journal_name(html_files[1].rows[1].raw_info))

\* the entry has been scraped
EntryScraped == apc # "idle" /\ page_idx = 1 /\ Len(html_files[1].rows) = 1

EntryCountedAtMostOnce ==
    /\ \A V \in Venues(journal_list) : totals.counts[V] \in {0, 1}
    /\ \A V, W \in Venues(journal_list) :
          (totals.counts[V] = 1 /\ totals.counts[W] = 1) => V = W

FirstLast ==
    /\ Len(NameParts) = 2
    /\ StartsUpper(NameParts[1])
    /\ StartsUpper(NameParts[2])

\* '<first letter of First> Last'
InitialAndLast == <<NameParts[1][1], " ">> \o NameParts[2]

EqualIgnoringCase(s, t) ==
    /\ Len(s) = Len(t)
    /\ \A i \in 1..Len(s) : LowerChar(s[i]) = LowerChar(t[i])

HyphensAsSpaces(s) == [i \in 1..Len(s) |-> IF s[i] = "-" THEN " " ELSE s[i]]

\* C11 (as claimed): for a hyphen-free 'First Last' and an author token with
\* at most one hyphen the result is true exactly when the token equals,
\* ignoring case, the first letter of First, one space, Last.
C11_TrueIffInitialAndLast ==
    (npc # "call" /\ FirstLast /\ HyphenCount(initialled_name) <= 1)
        => (cmp_result = "True"
               <=> EqualIgnoringCase(initialled_name, InitialAndLast))

\* C11 (amended): the result is true exactly when the token, with its hyphen
\* (if it has one) read as a space, equals that form ignoring case; 'A-Be'
\* matches 'An Be'.
C11_TrueIffInitialAndLastModuloHyphen ==
    (npc # "call" /\ FirstLast /\ HyphenCount(initialled_name) <= 1)
        => /\ cmp_result \in {"True", "False"}
           /\ cmp_result = "True"
                 <=> EqualIgnoringCase(HyphensAsSpaces(initialled_name), InitialAndLast)

\* 'A-Be' is classified as 'An Be'
C11_Witness ==
    /\ npc = "returned"
    /\ FirstLast
    /\ initialled_name = <<"A", "-", "B", "e">>
    /\ cmp_result = "True"

(***************************************************************************)
(* Claims about a run of main.                                             *)
(***************************************************************************)
\* scraping these cached pages calls compare_initialled_name_with_full_name
\* with an author token or a profile name of more than one hyphen
HasMultiHyphenCall(pages, jl) ==
    \E i \in 1..Len(pages) :
       LET pg == pages[i] IN
       \E r \in 1..Len(pg.rows) :
          LET row == pg.rows[r]
              al  == AuthorList(row.authors)
          IN  /\ row.wellformed
              /\ \E j \in 1..Len(jl) :
                    normalise_journal_name(jl[j])
                       = normalise_journal_name(extract_journal_name(row.raw_info))
              /\ \E n \in 1..Len(al) :
                    HyphenCount(al[n]) > 1 \/ HyphenCount(pg.name) > 1

FatalCandidate(k) ==
    df_hr[k].url_ok /\ HasMultiHyphenCall(html_dir[k], journal_list)

Happened(ev) == \E n \in 1..Len(trace) : trace[n].ev = ev

\* C12: when scraping a candidate calls the comparison with a name of more
\* than one hyphen, the run ends there with a fatal error: no record (not even
\* a placeholder) is made for that candidate, no later candidate is processed
\* and no report is written.
C12_MultiHyphenAbortsRun ==
    /\ \A n \in 1..Len(records) : ~FatalCandidate(records[n].row)
    /\ Happened("report") => \A k \in 1..Len(df_hr) : ~FatalCandidate(k)
    /\ mpc = "exited"
          => /\ FatalCandidate(scrape_i)
             /\ Len(records) = scrape_i - 1
             /\ ~Happened("report")
             /\ \A n \in 1..Len(trace) :
                   trace[n].ev = "aggregated" => trace[n].row < scrape_i

\* the first of two candidates has the two-hyphen author token: the run has
\* ended without a record
C12_Witness ==
    /\ mpc = "exited"
    /\ Len(df_hr) = 2
    /\ scrape_i = 1
    /\ records = <<>>
    /\ Happened("fatal")

(***************************************************************************)
(* Claims about the author-position counters and the per-venue invariants. *)
(***************************************************************************)
\* the author tokens of the first n cached pages that are classified as the
\* candidate in an entry counted for venue V: <<page, row, ordinal, authors>>
CandidateTokens(V, n) ==
    UNION { UNION { LET pg   == html_files[i]
                        row  == pg.rows[r]
                        al   == AuthorList(row.authors)
                        cand == IF pg.name = NoneSeq THEN <<>> ELSE pg.name
                    IN  IF /\ row.wellformed
                           /\ matched_journal(
                                 normalise_journal_name(extract_journal_name(row.raw_info)),
                                 journal_list) = V
                        THEN {<<i, r, k, Len(al)>> : k \in
                                 {o \in 1..Len(al) :
                                    compare_initialled_name_with_full_name(al[o], cand)
                                       = "True"}}
                        ELSE {}
                    : r \in 1..Len(html_files[i].rows) }
            : i \in 1..n }

\* C13: the position counters are incremented independently: first-author
\* for a candidate token at ordinal 1, second-author at ordinal 2, last-author
\* at the final ordinal, so ordinal 2 of two authors counts as second and as
\* last, and a single author counts as first and as last.
C13_PositionsIndependent ==
    (apc \in {"loop", "returned"})
        => \A V \in Venues(journal_list) :
              LET hits == CandidateTokens(V, page_idx) IN
              /\ totals.fa[V] = Cardinality({h \in hits : h[3] = 1})
              /\ totals.sa[V] = Cardinality({h \in hits : h[3] = 2})
              /\ totals.la[V] = Cardinality({h \in hits : h[3] = h[4]})

RECURSIVE SumOverVenues(_, _)
SumOverVenues(f, n) ==
    IF n = 0 THEN 0 ELSE SumOverVenues(f, n - 1) + f[journal_list[n]]

\* C14: after any pages aggregated for a profile, for every venue V the
\* first-, second- and last-author counts are at most total(V), total(V) is
\* at most total_article_count, and so is the sum of total(V) over the venues.
C14_CountsBounded ==
    (apc \in {"loop", "returned", "exited"})
        => /\ \A V \in Venues(journal_list) :
                 /\ totals.fa[V] <= totals.counts[V]
                 /\ totals.sa[V] <= totals.counts[V]
                 /\ totals.la[V] <= totals.counts[V]
                 /\ totals.counts[V] <= totals.article_count
           /\ SumOverVenues(totals.counts, Len(journal_list)) <= totals.article_count

\* two pages aggregated: entries of two venues, one of them with the candidate
\* first, and an entry of no venue
C14_Witness ==
    /\ apc = "returned"
    /\ page_idx = 2
    /\ \E V, W \in Venues(journal_list) :
          /\ V # W
          /\ totals.counts[V] >= 1
          /\ totals.counts[W] >= 1
          /\ totals.fa[V] >= 1
    /\ SumOverVenues(totals.counts, Len(journal_list)) < totals.article_count

\* positions of the trace holding event ev of row k
At(ev, k) == {n \in 1..Len(trace) : trace[n].ev = ev /\ trace[n].row = k}

Rows == 1..Len(df_hr)

\* C15 (as claimed): no request for candidate k+1 is issued before the pages
\* of candidate k have been aggregated into its record.
C15_AggregatedBeforeNextFetch ==
    \A k \in Rows : \A n \in At("request", k + 1) :
        \E m \in At("aggregated", k) : m < n

\* C15 (amended): the profiles are fetched one after the other, each request
\* answered (pages cached, or the operator asked) before the next candidate's
\* request; aggregation begins only after the fetch loop is over, so no
\* request follows an aggregation, and unless the operator stopped the loop
\* every candidate with a usable link was requested before the first
\* aggregation; the candidates are aggregated in sheet order.
C15_FetchLoopThenScrapeLoop ==
    /\ \A k, j \in Rows : \A n \in At("request", k) : \A m \in At("request", j) :
          n < m => /\ k < j
                   /\ trace[n + 1].row = k
                   /\ trace[n + 1].ev \in {"cached", "prompt"}
    /\ \A k, j \in Rows : \A n \in At("aggregated", k) :
          /\ \A m \in At("request", j) : m < n
          /\ \A m \in At("aggregated", j) : n < m => k < j
    /\ (Happened("aggregated") /\ ~OFFLINE_MODE /\ ~Happened("stop"))
          => \A k \in Rows : df_hr[k].url_ok => At("request", k) # {}

\* a normal run over two candidates: both fetched, then both aggregated
C15_Witness ==
    /\ mpc = "done"
    /\ ~OFFLINE_MODE
    /\ Len(df_hr) = 2
    /\ \E n1 \in At("request", 1), n2 \in At("request", 2),
          m1 \in At("aggregated", 1), m2 \in At("aggregated", 2) :
             n1 < n2 /\ n2 < m1 /\ m1 < m2
    /\ Happened("report")

\* C16: when the operator answers 'stop' at candidate k, the run has reported
\* the sheet index of the last fully processed candidate (k - 1) or of the
\* candidate to restart from (k), and every earlier candidate with a usable
\* link has its pages cached, so that a run restarted from that index neither
\* fetches a completed candidate again nor leaves out an unprocessed one.
C16_StopRecordsResumeIndex ==
    \A n \in 1..Len(trace) :
       trace[n].ev = "stop"
          => LET k == trace[n].row IN
             /\ \E m \in 1..(n - 1) :
                   trace[m].row \in {k - 1, k} /\ trace[m].id = trace[m].row
             /\ \A j \in 1..(k - 1) : df_hr[j].url_ok => At("cached", j) # {}

\* HTTP 429/503 or a block-marker page
SuspectedBlock(server) == server \in {"http_block", "block_page"}

\* C17: the operator is asked (continue/stop) only for a profile that failed
\* on a suspected block; a profile without pages for another reason
\* (transport failures beyond the retry budget, another non-200 status, no
\* table) raises no prompt.
C17_PromptOnlyOnSuspectedBlock ==
    \A n \in 1..Len(trace) :
       trace[n].ev = "prompt" => SuspectedBlock(df_hr[trace[n].row].server)

\* C18: in offline mode (the --offline flag, or 'y' at the offline prompt)
\* the run issues no request: the fetch loop is never entered, nothing is
\* written to html_dir, and every record comes from the pages cached before
\* the run.
C18_OfflineIssuesNoRequest ==
    OFFLINE_MODE
        => /\ mpc \notin {"fetch", "prompt"}
           /\ ~Happened("request")
           /\ ~Happened("banner")
           /\ html_dir = [k \in Rows |-> df_hr[k].stale]
           /\ \A n \in 1..Len(records) :
                 records[n].kind = "record" => df_hr[records[n].row].stale # <<>>

\* an offline run over two candidates has written its report, one record made
\* from the cached pages of a profile the server would have refused
C18_Witness ==
    /\ OFFLINE_MODE
    /\ mpc = "done"
    /\ Len(df_hr) = 2
    /\ Happened("report")
    /\ \E n \in 1..Len(records) :
          /\ records[n].kind = "record"
          /\ df_hr[records[n].row].server = "http_block"

(***************************************************************************)
(* Claims about the sleeps of the pagination controller.                   *)
(***************************************************************************)
\* C19 (as claimed): the sleep before the k-th retry of a page is exactly
\* block_backoff_base * 2^(k-1).
C19_BackoffExact ==
    last_sleep.kind = "backoff"
        => last_sleep.slept = block_backoff_base * 2^(last_sleep.k - 1)

\* C19 (amended): the sleep before the k-th retry (after the k-th transport
\* failure of the page, k <= max_block_retries) is drawn from the interval
\* [0.5, 1.5] x block_backoff_base * 2^(k-1): the typical value doubles, the
\* sleep itself need not.
C19_BackoffAroundDoubling ==
    last_sleep.kind = "backoff"
        => /\ last_sleep.k \in 1..max_block_retries
           /\ 2 * last_sleep.slept >= block_backoff_base * 2^(last_sleep.k - 1)
           /\ 2 * last_sleep.slept <= 3 * block_backoff_base * 2^(last_sleep.k - 1)

\* the sleep before the second retry is as long as the typical first one
C19_Witness ==
    /\ last_sleep.kind = "backoff"
    /\ last_sleep.k = 2
    /\ last_sleep.slept = block_backoff_base
    /\ cpc = "request"

DelayInterval(sleep) ==
    sleep.kind = "delay"
        => /\ 2 * sleep.slept >= delay
           /\ 2 * sleep.slept <= 3 * delay

\* C20 (as claimed): every yielded page that is not the last one is followed
\* by a sleep within [0.5 x delay, 1.5 x delay], and the page that ends
\* pagination is followed by none.
C20_NoSleepAfterEndingPage ==
    /\ DelayInterval(last_sleep)
    /\ \A p \in 1..(Len(pages_yielded) - 1) : p \in slept_after
    /\ stop_reason \in {"last_page", "max_pages"}
          => Len(pages_yielded) \notin slept_after

\* C20 (amended): a yielded page is followed by a sleep within
\* [0.5 x delay, 1.5 x delay] exactly when it holds pagesize rows, the
\* max_pages-th page included; a page of fewer rows is followed by none.
C20_SleepAfterEveryFullPage ==
    /\ DelayInterval(last_sleep)
    /\ \A p \in 1..Len(pages_yielded) :
          p \in slept_after
             <=> /\ ~(pages_yielded[p].rows < pagesize)
                 /\ (p < Len(pages_yielded) \/ cpc # "yielded")
    /\ slept_after \subseteq 1..Len(pages_yielded)

\* pagination ended at max_pages and the last page was followed by a sleep
\* other than the delay itself
C20_Witness ==
    /\ cpc = "returned"
    /\ stop_reason = "max_pages"
    /\ Len(pages_yielded) \in slept_after
    /\ last_sleep.kind = "delay"
    /\ last_sleep.slept # delay

(***************************************************************************)
(* C21.  iter_scholar_pages_requests of snap.py and of snapp.py            *)
(* terminates: every page is requested at most max_block_retries + 1       *)
(* times, the block-attempt counter is 0 when a page is first requested,   *)
(* at most max_pages pages are yielded, the requests of a run number at    *)
(* most max_pages * (max_block_retries + 1), and the generator and its     *)
(* consumer reach their end.                                               *)
(***************************************************************************)
RequestsBounded ==
    /\ page_requests <= max_block_retries + 1
    /\ Len(pages_yielded) <= max_pages
    /\ nreq <= max_pages * (max_block_retries + 1)

\* a step that moves on to the next page leaves the counter at 0
PageStartsAtZero ==
    (cpc' = "request" /\ page_index' # page_index) => block_attempts' = 0

ControllerEnded == cpc \in {"returned", "raised"}

C21_TerminatesWithinBudget ==
    /\ block_attempts = 0
    /\ []RequestsBounded
    /\ [][PageStartsAtZero]_vars
    /\ <>ControllerEnded

\* a run that used its whole budget on every page: each page failed
\* max_block_retries times and was then yielded
C21_Witness ==
    /\ ControllerEnded
    /\ source_file = "snap.py"
    /\ max_pages >= 2
    /\ max_block_retries >= 1
    /\ Len(pages_yielded) = max_pages
    /\ nreq = max_pages * (max_block_retries + 1)

(***************************************************************************)
(* C22.  Every page body the controller yields came from a status-200      *)
(* response, contains none of the block-marker phrases in any letter case, *)
(* and contains the results table with at least one row; and once the      *)
(* controller has stopped (non-retryable status, exhausted retry budget,   *)
(* missing table, zero rows, short page) it yields nothing more and issues *)
(* no further request.                                                     *)
(***************************************************************************)
SameLetterAnyCase(a, b) ==
    \/ a = b
    \/ \E i \in 1..26 : {a, b} = {LowerSeq[i], UpperSeq[i]}

ContainsInAnyCase(s, sub) ==
    \E i \in 0..(Len(s) - Len(sub)) :
       \A k \in 1..Len(sub) : SameLetterAnyCase(s[i + k], sub[k])

MarkerPhrases == block_markers \cup {<<"c", "a", "p", "t", "c", "h", "a">>}

YieldedPagesAreGood ==
    \A i \in 1..Len(pages_yielded) :
       /\ pages_yielded[i].status = 200
       /\ \A marker \in MarkerPhrases :
             ~ContainsInAnyCase(pages_yielded[i].text, marker)
       /\ pages_yielded[i].table
       /\ pages_yielded[i].rows >= 1

StopReasons ==
    {"http_block", "http_error", "block_page", "transport", "no_table",
     "no_rows", "last_page"}

NothingAfterStop ==
    stop_reason \in StopReasons
        => /\ pages_yielded' = pages_yielded
           /\ nreq' = nreq
           /\ stop_reason' = stop_reason

C22_YieldsOnlyGoodPagesAndStops ==
    /\ pages_yielded = <<>>
    /\ []YieldedPagesAreGood
    /\ [][NothingAfterStop]_vars

\* two pages were yielded, the third response had no table, and the consumer
\* has returned
C22_Witness ==
    /\ cpc = "returned"
    /\ stop_reason = "no_table"
    /\ Len(pages_yielded) = 2
    /\ nreq >= 3

(***************************************************************************)
(* C23.  In snap.py's scrape_it a publication entry increments the count   *)
(* of at most one allow-listed venue, and only when the entry's venue name *)
(* equals that venue's name: an entry whose venue text merely contains an  *)
(* allow-listed name is not counted.                                       *)
(***************************************************************************)
\* the venue text of the single entry as snap.py compares it
SnapEntryVenue == Lower(Strip(html_files[1].rows[1].raw_info))

C23_SnapCountsOnlyEqualVenue ==
    EntryScraped
        => /\ \A V \in Venues(journal_list) :
                 totals.counts[V] = 1 => SnapEntryVenue = Lower(V)
           /\ EntryCountedAtMostOnce

(***************************************************************************)
(* C24.  In process_profile and the processing loop of main every          *)
(* candidate of the selected range yields exactly one record, in input     *)
(* order; a candidate with an empty or unparsable URL, with no cached      *)
(* page, with no meaningful data, or whose parsing raises an ordinary      *)
(* exception yields a placeholder record and processing continues.         *)
(***************************************************************************)
RecordsInInputOrder == \A n \in 1..Len(records) : records[n].row = n

\* the candidate of row k is one of the four placeholder cases
PlaceholderCase(k) ==
    \/ ~df_hr[k].url_ok
    \/ html_dir[k] = <<>>
    \/ html_dir[k] = <<NoDataPage>>
    \/ ~html_dir[k][1].readable

PlaceholderCasesGetPlaceholder ==
    \A n \in 1..Len(records) :
       PlaceholderCase(records[n].row) => records[n].kind = "placeholder"

\* the processing loop has been left, by its end, by an exit or by an
\* uncaught exception
ProcessingOver == mpc \in {"exited", "crashed"} \/ (mpc = "done" /\ ~FETCH_ONLY_MODE)

\* C24 (as claimed): once the processing loop is over there is one record per
\* candidate
C24_EveryCandidateOneRecord ==
    /\ RecordsInInputOrder
    /\ PlaceholderCasesGetPlaceholder
    /\ ProcessingOver => Len(records) = Len(df_hr)

\* C24 (as the code has it): a processing loop that runs to its end leaves
\* one record per candidate, in input order, a placeholder in the four
\* cases; the loop is cut short only by the exit(1) of the author classifier
\* on a name of more than one hyphen, and then the candidate it was at and
\* every later one have no record, or, when the journal-list file is
\* missing, by the unbound normalised_journal_titles at the first candidate.
C24_OneRecordUnlessFatalExit ==
    /\ RecordsInInputOrder
    /\ PlaceholderCasesGetPlaceholder
    /\ (mpc = "done" /\ ~FETCH_ONLY_MODE) => Len(records) = Len(df_hr)
    /\ mpc = "exited" => /\ FatalCandidate(scrape_i)
                         /\ ~PlaceholderCase(scrape_i)
                         /\ Len(records) = scrape_i - 1
    /\ mpc = "crashed" => /\ journal_file = "missing"
                          /\ scrape_i = 1
                          /\ records = <<>>

\* the first candidate's cached file cannot be read and the second has a
\* usable cached page: a placeholder, then a record
C24_Witness ==
    /\ mpc = "done"
    /\ Len(records) = 2
    /\ ~html_dir[1] = <<>>
    /\ ~html_dir[1][1].readable
    /\ records[1].kind = "placeholder"
    /\ records[2].kind = "record"

(***************************************************************************)
(* C25.  For a full name 'First Sur1-Sur2' (First alphabetic and           *)
(* capitalised, one hyphen in the surname) the classifier returns true for *)
(* the author token 'F Sur1-Sur2' and for 'F Sur1 Sur2', in any letter     *)
(* case.                                                                   *)
(***************************************************************************)
HyphenatedSurnameName ==
    /\ Len(NameParts) = 2
    /\ StartsUpper(NameParts[1])
    /\ HyphenCount(NameParts[2]) = 1

\* 'F Sur1-Sur2'
InitialAndHyphenatedLast == <<NameParts[1][1], " ">> \o NameParts[2]

C25_HyphenOrSpaceFormMatches ==
    (/\ npc # "call"
     /\ HyphenatedSurnameName
     /\ \/ EqualIgnoringCase(initialled_name, InitialAndHyphenatedLast)
        \/ EqualIgnoringCase(initialled_name, HyphensAsSpaces(InitialAndHyphenatedLast)))
    => cmp_result = "True"

\* 'a B E' has been compared with 'An B-e' and found to be the candidate
C25_Witness ==
    /\ npc = "returned"
    /\ full_name = <<"A", "n", " ", "B", "-", "e">>
    /\ initialled_name = <<"a", " ", "B", " ", "E">>
    /\ cmp_result = "True"

(***************************************************************************)
(* C26.  In an interactive run over a sheet of N candidates, for every     *)
(* entered start in 1..N and end in start..N the candidates selected for   *)
(* fetching and processing are exactly those numbered start..end, and with *)
(* a blank end entry those numbered start..N.                              *)
(***************************************************************************)
\* the sheet numbers a..b in order
Numbers(a, b) == [k \in 1..(b - a + 1) |-> a + k - 1]

C26_RangeIsStartToEnd ==
    (/\ rpc = "selected"
     /\ start_entry.kind = "int"
     /\ start_entry.n \in 1..sheet_len)
    => /\ (end_entry.kind = "int" /\ end_entry.n \in start_entry.n..sheet_len)
             => df_rows = Numbers(start_entry.n, end_entry.n)
       /\ end_entry.kind = "blank"
             => df_rows = Numbers(start_entry.n, sheet_len)

(***************************************************************************)
(* C27.  When the journal-list file does not exist main continues with an  *)
(* empty allow-list: the processing phase runs without error and every     *)
(* candidate gets a record.                                                *)
(***************************************************************************)
C27_MissingJournalFileStillProcesses ==
    journal_file = "missing"
        => /\ journal_list = <<>>
           /\ mpc # "crashed"
           /\ (mpc = "done" /\ ~FETCH_ONLY_MODE) => Len(records) = Len(df_hr)

(***************************************************************************)
(* C28.  The pages aggregated for a profile are the cached files           *)
(* <user_id>_p1 .. _pk present on disk, whether or not this run wrote      *)
(* them: cache files are never deleted, so when the fetch of this run      *)
(* yields fewer pages than an earlier run left (or none), the earlier      *)
(* run's pages are aggregated into the profile's record.                   *)
(***************************************************************************)
\* the pages this run has written for the candidate of row k
WrittenThisRun(k) == IF At("cached", k) # {} THEN df_hr[k].content ELSE <<>>

\* the files of row k on disk: page i as written in this run, or else as an
\* earlier run left it
FilesOnDisk(k) ==
    LET new == WrittenThisRun(k)
        old == df_hr[k].stale
        n   == IF Len(new) > Len(old) THEN Len(new) ELSE Len(old)
    IN  [i \in 1..n |-> IF i <= Len(new) THEN new[i] ELSE old[i]]

RECURSIVE ArticlesOn(_)
\* the publication rows of the pages
ArticlesOn(pages) ==
    IF pages = <<>> THEN 0
    ELSE Len(SelectSeq(pages[1].rows, LAMBDA row : row.wellformed))
            + ArticlesOn(Tail(pages))

C28_AggregatesEveryCachedPage ==
    (mpc = "scrape" /\ apc = "returned")
        => /\ html_files = FilesOnDisk(scrape_i)
           /\ page_idx = Len(FilesOnDisk(scrape_i))
           /\ info_found = (FilesOnDisk(scrape_i) # <<>>)
           /\ totals.article_count = ArticlesOn(FilesOnDisk(scrape_i))

\* a normal run fetched one page of a profile whose cache held two: the page
\* of this run and the second page of the earlier run were aggregated
C28_Witness ==
    /\ mpc = "scrape"
    /\ apc = "returned"
    /\ ~OFFLINE_MODE
    /\ ~FETCH_ONLY_MODE
    /\ At("cached", scrape_i) # {}
    /\ Len(df_hr[scrape_i].content) = 1
    /\ Len(df_hr[scrape_i].stale) = 2
    /\ page_idx = 2
    /\ totals.article_count = 2

(***************************************************************************)
(* C29.  When the full name yields no initials (a single word or empty, or *)
(* every token before the last is non-alphabetic or starts in lowercase)   *)
(* the rebuilt form starts with a space, and the classifier returns false  *)
(* for every author token without a leading space; for the trimmed author  *)
(* tokens of scrape_it no author is then attributed to the candidate.      *)
(***************************************************************************)
NoInitialsName ==
    \A i \in 1..(Len(NameParts) - 1) : ~StartsUpper(NameParts[i])

\* an author token as scrape_it passes it: a.strip(), not empty
TrimmedToken == initialled_name # <<>> /\ Strip(initialled_name) = initialled_name

\* C29 (as claimed): no author token without a leading space is classified as
\* the candidate
C29_NoInitialsNeverMatches ==
    (/\ npc # "call"
     /\ NoInitialsName
     /\ (initialled_name = <<>> \/ initialled_name[1] # " "))
    => /\ full_name_initialised(full_name)[1] = " "
       /\ cmp_result # "True"

\* C29 (as the code has it): the rebuilt form starts with a space, and no
\* author token that starts with neither a space nor a hyphen is classified as
\* the candidate: the call returns false, or exits when a name has more than
\* one hyphen.  A token whose first character is its only hyphen is read
\* with a leading space and can match: '-Be' is classified as 'Be'.
C29_NoInitialsMatchesOnlyLeadingHyphen ==
    (npc # "call" /\ NoInitialsName)
    => /\ full_name_initialised(full_name)[1] = " "
       /\ (initialled_name = <<>> \/ initialled_name[1] \notin {" ", "-"})
             => /\ cmp_result \in {"False", "exit"}
                /\ cmp_result = "exit"
                      <=> (HyphenCount(initialled_name) > 1 \/ HyphenCount(full_name) > 1)
       /\ (TrimmedToken /\ cmp_result = "True")
             => /\ initialled_name[1] = "-"
                /\ EqualIgnoringCase(Tail(initialled_name),
                                     HyphensAsSpaces(Tail(full_name_initialised(full_name))))

\* the trimmed token '-Be' has been compared with the single-word name 'Be'
\* and classified as the candidate
C29_Witness ==
    /\ npc = "returned"
    /\ full_name = <<"B", "e">>
    /\ initialled_name = <<"-", "B", "e">>
    /\ cmp_result = "True"

(***************************************************************************)
(* C30.  After the operator answers 'stop' to the suspected-block prompt   *)
(* in a normal (not fetch-only) run no further candidate is fetched, but   *)
(* the run does not end: the processing phase still builds a record for    *)
(* every candidate of the range, the never-fetched ones included, and      *)
(* writes the reports.                                                     *)
(***************************************************************************)
StoppedNormalRun == Happened("stop") /\ ~FETCH_ONLY_MODE

\* nothing of the fetch loop follows the stop
NoFetchAfterStop ==
    \A n, m \in 1..Len(trace) :
       (trace[n].ev = "stop" /\ n < m)
           => trace[m].ev \notin {"banner", "request", "cached", "unable", "prompt",
                                  "continue", "stop"}

\* the run has got past the stop into the processing phase
InProcessingPhase == mpc \in {"scrape", "done", "exited", "crashed"}

AllRecordsAndReport ==
    /\ Len(records) = Len(df_hr)
    /\ RecordsInInputOrder
    /\ Happened("report")

\* C30 (as claimed): the processing phase after a stop is never cut short and
\* ends with a record for every candidate and the reports
C30_StopStillProcessesEveryCandidate ==
    StoppedNormalRun
        => /\ NoFetchAfterStop
           /\ mpc \in {"scrape", "done"}
           /\ mpc = "done" => AllRecordsAndReport

\* C30 (as the code has it): after a stop the run goes on into the
\* processing phase, and a processing phase that runs to its end has built a
\* record for every candidate and written the reports; it is cut short only
\* by the exit(1) on a cached page with a name of more than one hyphen or,
\* when the journal-list file is missing, by the unbound
\* normalised_journal_titles at the first candidate.
C30_StopStillProcessesUnlessFatal ==
    StoppedNormalRun
        => /\ NoFetchAfterStop
           /\ InProcessingPhase
           /\ mpc = "done" => AllRecordsAndReport
           /\ mpc = "exited" => FatalCandidate(scrape_i)
           /\ mpc = "crashed" => (journal_file = "missing" /\ records = <<>>)

\* the operator stopped at the first of two candidates: the second was never
\* requested, both have a record, and the reports were written
C30_Witness ==
    /\ mpc = "done"
    /\ StoppedNormalRun
    /\ Len(df_hr) = 2
    /\ At("stop", 1) # {}
    /\ At("request", 2) = {}
    /\ Len(records) = 2
    /\ Happened("report")

=============================================================================
